---- MODULE Spec2Model ----
(***************************************************************************)
(* Order validation and dispatch of the CLI Binance bot.                   *)
(*                                                                         *)
(* One behaviour is one process running one of the order scripts           *)
(* (market_orders.py, limit_orders.py, advanced/stop_limit_orders.py,      *)
(* advanced/oco.py).  The exchange is the environment: it answers          *)
(* exchange_info / ticker / account / order-creation calls or raises.      *)
(*                                                                         *)
(* Numbers.  Quantities and prices are Python floats in the source.  The   *)
(* model draws them from multiples of one binary unit (a power of two),    *)
(* on which float(), <, >, - and % are exact, so the integer arithmetic    *)
(* below is the arithmetic the interpreter performs on those values.       *)
(* Decimal literals that are not exactly representable are outside the     *)
(* model.                                                                  *)
(***************************************************************************)
EXTENDS Integers, Sequences, FiniteSets, TLC

VARIABLES
    bot,        \* which script this process runs: "market", "limit", "stop_limit", "oco",
                \* "top" for bot.py
    exchange,   \* the exchange's current symbol list (exchange_info()['symbols'])
    ticker,     \* the exchange's current price of the symbol (futures_symbol_ticker)
    cache,      \* self._symbol_info_cache : symbol -> symbol_info
    req,        \* the order request being dispatched
    pc,         \* "Idle", "Validating", "Submitted", "Polling", "Sleeping", "Done";
                \* for a command line run "Idle", "Subprocess", "Placing", "Config",
                \* "Exited"
    calls,      \* gateway endpoints called so far for this request, in order
                \* (and the time.sleep calls of the status poller between them)
    checks,     \* validations run so far for this request, with their verdicts
    sent,       \* payload handed to the order-creation endpoint
    gwOut,      \* what the order-creation endpoint (or the last status poll, or the
                \* subprocess of the top-level command) answered
    result,     \* what the entry point returned or raised, and what it logged
    vcall,      \* last direct call of a validator: its arguments and verdict
    balance,    \* what get_account_balance() returned to place_*: "none" before it is called
    env,        \* the process environment: credentials set, order scripts on disk
    argv,       \* the command line of the process
    config,     \* MarketOrderBot.config: the orders of the --config file, None without one
    success     \* the flag of execute_from_config, True when its loop starts

vars == <<bot, exchange, ticker, cache, req, pc, calls, checks, sent, gwOut, result, vcall,
          balance, env, argv, config, success>>

(***************************************************************************)
(* Bounds                                                                  *)
(***************************************************************************)
MaxQty == 4         \* quantities of a dispatched request range over -1..MaxQty
MaxPrice == 6       \* prices of a dispatched request range over 0..MaxPrice
MaxTicker == 4      \* current prices range over 2..MaxTicker
MaxFilter == 2      \* validator runs: minQty, maxQty, minPrice, maxPrice range over 0..MaxFilter
MaxStep == 2        \* validator runs: stepSize, tickSize range over 0..MaxStep
MaxArg == 3         \* validator runs: quantity / price arguments range over -1..MaxArg
MaxOrders == 3      \* a config file lists 0..MaxOrders orders
MaxPositional == 6  \* command lines carry 0..MaxPositional positional arguments
MaxPolls == 3       \* calls records the first MaxPolls - 1 passes of the status poller
                    \* and the pass it is in

None == "None"

\* the order types of the top-level command and their scripts (ORDER_SCRIPTS)
OrderTypes == {"market", "limit", "oco", "stop_limit", "twap"}

Env(k, sk, fs) == [api_key |-> k, secret_key |-> sk, scripts |-> fs]

\* both credentials set, every order script in place
FullEnv == Env(TRUE, TRUE, OrderTypes)

\* order_type: the first argument of the top-level command; positional, options: how
\* many positional arguments and how many option strings (--dry-run, ...) follow;
\* dry_run, config: the --dry-run and --config options of the order scripts
Argv(t, n, o, dry, cfg) ==
    [order_type |-> t, positional |-> n, options |-> o, dry_run |-> dry, config |-> cfg]

NoArgv == Argv("none", 0, 0, FALSE, FALSE)

\* self.config: kind "None" without a config file, "{}" for the empty JSON object,
\* "dict" for any other JSON object, whose 'orders' list (default []) is orders
Config(k, os) == [kind |-> k, orders |-> os]
NoConfig == Config("None", <<>>)

(***************************************************************************)
(* Exchange data                                                           *)
(***************************************************************************)
LotSize(lo, hi, step) ==
    [filterType |-> "LOT_SIZE", minQty |-> lo, maxQty |-> hi, stepSize |-> step]

PriceFilter(lo, hi, tick) ==
    [filterType |-> "PRICE_FILTER", minPrice |-> lo, maxPrice |-> hi, tickSize |-> tick]

SymbolInfo(sym, st, fs) == [symbol |-> sym, status |-> st, filters |-> fs]

\* Listings the exchange may publish while orders are dispatched.
Listings ==
    { << SymbolInfo("BTCUSDT", st, <<LotSize(1, 3, 2), PriceFilter(1, 5, 2)>>) >>
        : st \in {"TRADING", "BREAK"} }

\* str.upper() on the strings of the model
Upper(s) ==
    CASE s = "btcusdt" -> "BTCUSDT"
      [] s = "buy"     -> "BUY"
      [] s = "Sell"    -> "SELL"
      [] OTHER         -> s

EmptyCache == [s \in {} |-> None]

Put(c, k, v) == [s \in (DOMAIN c) \cup {k} |-> IF s = k THEN v ELSE c[s]]

\* position of the first entry of the list with this symbol, 0 if there is none
FirstMatch(symbols, symbol) ==
    IF \E i \in 1..Len(symbols) : symbols[i].symbol = symbol
    THEN CHOOSE i \in 1..Len(symbols) :
            /\ symbols[i].symbol = symbol
            /\ \A j \in 1..(i-1) : symbols[j].symbol # symbol
    ELSE 0

(***************************************************************************)
(* MarketOrderBot validators                                               *)
(* Each returns its verdict, the cache afterwards and the gateway calls it *)
(* made.  gw is the outcome of exchange_info(), should it be called.       *)
(***************************************************************************)
\* mutant: a cached symbol passes whatever its status
MarketOrderBot_validate_symbol_cached_passes(c, gw, symbol) ==
    IF symbol \in DOMAIN c
    THEN [ret |-> TRUE, cache |-> c, calls |-> <<>>]
    ELSE IF gw.raised
    THEN [ret |-> FALSE, cache |-> c, calls |-> <<"exchange_info">>]
    ELSE LET i == FirstMatch(gw.value, symbol) IN
         IF i = 0
         THEN [ret |-> FALSE, cache |-> c, calls |-> <<"exchange_info">>]
         ELSE [ret |-> gw.value[i].status = "TRADING",
               cache |-> Put(c, symbol, gw.value[i]),
               calls |-> <<"exchange_info">>]

MarketOrderBot_validate_symbol(c, gw, symbol) ==
    IF symbol \in DOMAIN c
    THEN [ret |-> c[symbol].status = "TRADING", cache |-> c, calls |-> <<>>]
    ELSE IF gw.raised
    THEN [ret |-> FALSE, cache |-> c, calls |-> <<"exchange_info">>]
    ELSE LET i == FirstMatch(gw.value, symbol) IN
         IF i = 0
         THEN [ret |-> FALSE, cache |-> c, calls |-> <<"exchange_info">>]
         ELSE [ret |-> gw.value[i].status = "TRADING",
               cache |-> Put(c, symbol, gw.value[i]),
               calls |-> <<"exchange_info">>]

\* the body of the LOT_SIZE branch of the filter loop: TRUE when no return False is hit
\* mutant: the comparison with maxQty is missing
Market_lot_size_ok_no_max(f, quantity) ==
    /\ ~(quantity < f.minQty)
    /\ (f.stepSize > 0 => (quantity - f.minQty) % f.stepSize = 0)

Market_lot_size_ok(f, quantity) ==
    /\ ~(quantity < f.minQty)
    /\ ~(quantity > f.maxQty)
    /\ (f.stepSize > 0 => (quantity - f.minQty) % f.stepSize = 0)

MarketOrderBot_validate_quantity(c, gw, symbol, quantity) ==
    IF quantity <= 0
    THEN [ret |-> FALSE, cache |-> c, calls |-> <<>>]
    ELSE LET vs == IF symbol \notin DOMAIN c
                   THEN MarketOrderBot_validate_symbol(c, gw, symbol)
                   ELSE [ret |-> TRUE, cache |-> c, calls |-> <<>>]
         IN IF ~vs.ret
            THEN [ret |-> FALSE, cache |-> vs.cache, calls |-> vs.calls]
            ELSE LET fs == vs.cache[symbol].filters IN
                 [ret |-> \A i \in 1..Len(fs) :
                             fs[i].filterType = "LOT_SIZE" => Market_lot_size_ok(fs[i], quantity),
                  cache |-> vs.cache, calls |-> vs.calls]

(***************************************************************************)
(* LimitOrderBot validators                                                *)
(***************************************************************************)
\* mutant: a cached symbol is fetched again and its entry overwritten
LimitOrderBot_validate_symbol_refreshes(c, gw, symbol) ==
    IF gw.raised
    THEN [ret |-> FALSE, cache |-> c, calls |-> <<"exchange_info">>]
    ELSE LET i == FirstMatch(gw.value, symbol) IN
         IF i = 0
         THEN [ret |-> FALSE, cache |-> c, calls |-> <<"exchange_info">>]
         ELSE [ret |-> gw.value[i].status = "TRADING",
               cache |-> Put(c, symbol, gw.value[i]),
               calls |-> <<"exchange_info">>]

LimitOrderBot_validate_symbol(c, gw, symbol) ==
    IF symbol \in DOMAIN c
    THEN [ret |-> c[symbol].status = "TRADING", cache |-> c, calls |-> <<>>]
    ELSE IF gw.raised
    THEN [ret |-> FALSE, cache |-> c, calls |-> <<"exchange_info">>]
    ELSE LET i == FirstMatch(gw.value, symbol) IN
         IF i = 0
         THEN [ret |-> FALSE, cache |-> c, calls |-> <<"exchange_info">>]
         ELSE [ret |-> gw.value[i].status = "TRADING",
               cache |-> Put(c, symbol, gw.value[i]),
               calls |-> <<"exchange_info">>]

\* mutant: the remainder is taken of the quantity, not of its distance from minQty
Limit_lot_size_ok_unshifted(f, quantity) ==
    /\ ~(quantity < f.minQty)
    /\ ~(quantity > f.maxQty)
    /\ (f.stepSize > 0 => quantity % f.stepSize = 0)

Limit_lot_size_ok(f, quantity) ==
    /\ ~(quantity < f.minQty)
    /\ ~(quantity > f.maxQty)
    /\ (f.stepSize > 0 => (quantity - f.minQty) % f.stepSize = 0)

LimitOrderBot_validate_quantity(c, gw, symbol, quantity) ==
    IF quantity <= 0
    THEN [ret |-> FALSE, cache |-> c, calls |-> <<>>]
    ELSE LET vs == IF symbol \notin DOMAIN c
                   THEN LimitOrderBot_validate_symbol(c, gw, symbol)
                   ELSE [ret |-> TRUE, cache |-> c, calls |-> <<>>]
         IN IF ~vs.ret
            THEN [ret |-> FALSE, cache |-> vs.cache, calls |-> vs.calls]
            ELSE LET fs == vs.cache[symbol].filters IN
                 [ret |-> \A i \in 1..Len(fs) :
                             fs[i].filterType = "LOT_SIZE" => Limit_lot_size_ok(fs[i], quantity),
                  cache |-> vs.cache, calls |-> vs.calls]

\* mutant: a tick size of 0 is refused
Limit_price_filter_ok_tick_required(f, price) ==
    /\ ~(price < f.minPrice)
    /\ ~(price > f.maxPrice)
    /\ f.tickSize > 0
    /\ (price - f.minPrice) % f.tickSize = 0

\* the body of the PRICE_FILTER branch of the filter loop
Limit_price_filter_ok(f, price) ==
    /\ ~(price < f.minPrice)
    /\ ~(price > f.maxPrice)
    /\ (f.tickSize > 0 => (price - f.minPrice) % f.tickSize = 0)

LimitOrderBot_validate_price(c, gw, symbol, price) ==
    IF price <= 0
    THEN [ret |-> FALSE, cache |-> c, calls |-> <<>>]
    ELSE LET vs == IF symbol \notin DOMAIN c
                   THEN LimitOrderBot_validate_symbol(c, gw, symbol)
                   ELSE [ret |-> TRUE, cache |-> c, calls |-> <<>>]
         IN IF ~vs.ret
            THEN [ret |-> FALSE, cache |-> vs.cache, calls |-> vs.calls]
            ELSE LET fs == vs.cache[symbol].filters IN
                 [ret |-> \A i \in 1..Len(fs) :
                             fs[i].filterType = "PRICE_FILTER" => Limit_price_filter_ok(fs[i], price),
                  cache |-> vs.cache, calls |-> vs.calls]

(***************************************************************************)
(* Requests, responses, results                                            *)
(***************************************************************************)
Symbols == {"BTCUSDT", "btcusdt", "XRPUSDT"}
Sides == {"BUY", "SELL", "buy", "Sell", "HOLD"}
ArgparseSides == {"BUY", "SELL", "buy", "sell"}     \* choices= of the side argument

Request(t, sym, sd, q, p, sp, lp, slp, dry) ==
    [type |-> t, symbol |-> sym, side |-> sd, quantity |-> q, price |-> p,
     stop_price |-> sp, limit_price |-> lp, stop_limit_price |-> slp, dry_run |-> dry]

NoReq == Request("none", "", "", 0, 0, 0, 0, 0, FALSE)

MarketRequests ==
    { Request("MARKET", sym, sd, q, 0, 0, 0, 0, dry) :
        sym \in Symbols, sd \in Sides, q \in 0..MaxQty, dry \in BOOLEAN }

StopLimitRequests ==
    { Request("STOP_LIMIT", sym, sd, q, 0, sp, lp, 0, FALSE) :
        sym \in Symbols, sd \in Sides, q \in 0..MaxQty, sp \in 0..MaxPrice, lp \in 0..MaxPrice }

\* place_oco_order looks at the sign of its prices only
OcoRequests ==
    { Request("OCO", sym, sd, q, p, sp, 0, slp, dry) :
        sym \in Symbols, sd \in Sides, q \in 0..MaxQty,
        p \in {0, MaxPrice}, sp \in {0, MaxPrice}, slp \in {0, MaxPrice}, dry \in BOOLEAN }

LimitRequests ==
    { Request("LIMIT", sym, sd, q, p, 0, 0, 0, dry) :
        sym \in Symbols, sd \in Sides, q \in 0..MaxQty, p \in 0..MaxPrice, dry \in BOOLEAN }

NoResponse == [orderId |-> 0, status |-> "none"]
Responses == { [orderId |-> 1, status |-> st] : st \in {"NEW", "FILLED"} }

GatewayErrors == {"ClientError", "ServerError", "BinanceAPIException", "Exception"}
OrderRaised(e) == [raised |-> TRUE, error |-> e, response |-> NoResponse]
OrderReturned(r) == [raised |-> FALSE, error |-> "none", response |-> r]
OrderOutcomes == { OrderRaised(e) : e \in GatewayErrors } \cup { OrderReturned(r) : r \in Responses }
NoOutcome == OrderReturned(NoResponse)

\* what exchange_info() may do when called now
ExchangeInfoOutcomes == { [raised |-> TRUE, value |-> <<>>], [raised |-> FALSE, value |-> exchange] }

NoPayload == [symbol |-> "", side |-> "", type |-> "none", quantity |-> 0,
              price |-> 0, stopPrice |-> 0, stopLimitPrice |-> 0]

\* kind: "none" while running; "None" / "response" / "{}" / "True" / "False" for a
\* returned value;
\* "exit0" / "exit1" / "exit130" for an exit code; "ValueError" for a raised exception.
\* log: "error", "placed", "dry_run", "final", "cancelled", "ready" or "tracked", the last
\* outcome written to the log / console.
Result(k, r, l) == [kind |-> k, response |-> r, log |-> l]
NoResult == Result("none", NoResponse, "none")

Check(n, b) == [name |-> n, ok |-> b]

\* a call of a validator: its arguments, its verdict and, in failed, the check that
\* returned False where the validator tells ("exception" when its except branch ran)
VCall(f, sym, sd, q, p, sp, lp, b, why) ==
    [fn |-> f, symbol |-> sym, side |-> sd, quantity |-> q, price |-> p,
     stop_price |-> sp, limit_price |-> lp, ret |-> b, failed |-> why]

NoCall == VCall("none", "", "", 0, 0, 0, 0, FALSE, "none")

(***************************************************************************)
(* MarketOrderBot.place_market_order                                       *)
(***************************************************************************)
\* the checks before the balance query; symbol and side already upper-cased
\* mutant: the return None after a failed quantity validation is missing
MarketOrderBot_checks_no_quantity_return(c, gw, symbol, side, quantity) ==
    LET vs == MarketOrderBot_validate_symbol(c, gw, symbol)
        vq == MarketOrderBot_validate_quantity(vs.cache, gw, symbol, quantity)
    IN IF side \notin {"BUY", "SELL"}
       THEN [ok |-> FALSE, cache |-> c, calls |-> <<>>,
             checks |-> <<Check("side", FALSE)>>]
       ELSE IF ~vs.ret
       THEN [ok |-> FALSE, cache |-> vs.cache, calls |-> vs.calls,
             checks |-> <<Check("side", TRUE), Check("symbol", FALSE)>>]
       ELSE [ok |-> TRUE, cache |-> vq.cache, calls |-> vs.calls \o vq.calls,
             checks |-> <<Check("side", TRUE), Check("symbol", TRUE), Check("quantity", vq.ret)>>]

MarketOrderBot_checks(c, gw, symbol, side, quantity) ==
    LET vs == MarketOrderBot_validate_symbol(c, gw, symbol)
        vq == MarketOrderBot_validate_quantity(vs.cache, gw, symbol, quantity)
    IN IF side \notin {"BUY", "SELL"}
       THEN [ok |-> FALSE, cache |-> c, calls |-> <<>>,
             checks |-> <<Check("side", FALSE)>>]
       ELSE IF ~vs.ret
       THEN [ok |-> FALSE, cache |-> vs.cache, calls |-> vs.calls,
             checks |-> <<Check("side", TRUE), Check("symbol", FALSE)>>]
       ELSE IF ~vq.ret
       THEN [ok |-> FALSE, cache |-> vq.cache, calls |-> vs.calls \o vq.calls,
             checks |-> <<Check("side", TRUE), Check("symbol", TRUE), Check("quantity", FALSE)>>]
       ELSE [ok |-> TRUE, cache |-> vq.cache, calls |-> vs.calls \o vq.calls,
             checks |-> <<Check("side", TRUE), Check("symbol", TRUE), Check("quantity", TRUE)>>]

\* the try / except around new_order: the value place_market_order returns
\* mutant: the success branch returns a value of its own making, not the response
MarketOrderBot_order_result_drops_response(out) ==
    IF ~out.raised THEN Result("response", NoResponse, "placed")
    ELSE IF out.error = "ClientError" THEN Result("None", NoResponse, "error")
    ELSE IF out.error = "ServerError" THEN Result("None", NoResponse, "error")
    ELSE Result("None", NoResponse, "error")

MarketOrderBot_order_result(out) ==
    IF ~out.raised THEN Result("response", out.response, "placed")
    ELSE IF out.error = "ClientError" THEN Result("None", NoResponse, "error")
    ELSE IF out.error = "ServerError" THEN Result("None", NoResponse, "error")
    ELSE Result("None", NoResponse, "error")

\* what client.account() may do: raise, or return the account (a non-empty dict)
AccountOutcomes == { [raised |-> TRUE], [raised |-> FALSE] }

\* get_account_balance(): the account, or None when the gateway raised
get_account_balance(out) == IF out.raised THEN "None" ELSE "account_info"

\* mutant: without the account the order is given up
place_market_order_needs_balance ==
    /\ pc = "Validating" /\ bot = "market" /\ ~req.dry_run
    /\ \E gw \in ExchangeInfoOutcomes, acc \in AccountOutcomes :
         LET symbol == Upper(req.symbol)
             side == Upper(req.side)
             v == MarketOrderBot_checks(cache, gw, symbol, side, req.quantity)
             account_info == get_account_balance(acc)
         IN /\ cache' = v.cache
            /\ checks' = v.checks
            /\ IF v.ok /\ account_info # "None"
               THEN /\ calls' = v.calls \o <<"account", "new_order">>
                    /\ balance' = account_info
                    /\ sent' = [NoPayload EXCEPT !.symbol = symbol, !.side = side,
                                                 !.type = "MARKET", !.quantity = req.quantity]
                    /\ pc' = "Submitted"
                    /\ result' = result
               ELSE /\ calls' = IF v.ok THEN v.calls \o <<"account">> ELSE v.calls
                    /\ balance' = IF v.ok THEN account_info ELSE balance
                    /\ sent' = sent
                    /\ pc' = "Done"
                    /\ result' = Result("None", NoResponse, "error")
    /\ UNCHANGED <<success, env, argv, config, bot, exchange, ticker, req, gwOut, vcall>>

\* from entry to the new_order call (or to the early return None).  The balance
\* query get_account_balance() swallows its own exceptions and its value is only
\* logged: it shows as the "account" call and as the value kept in balance.
place_market_order ==
    /\ pc = "Validating" /\ bot = "market" /\ ~req.dry_run
    /\ \E gw \in ExchangeInfoOutcomes, acc \in AccountOutcomes :
         LET symbol == Upper(req.symbol)
             side == Upper(req.side)
             v == MarketOrderBot_checks(cache, gw, symbol, side, req.quantity)
         IN /\ cache' = v.cache
            /\ checks' = v.checks
            /\ IF v.ok
               THEN /\ calls' = v.calls \o <<"account", "new_order">>
                    /\ balance' = get_account_balance(acc)
                    /\ sent' = [NoPayload EXCEPT !.symbol = symbol, !.side = side,
                                                 !.type = "MARKET", !.quantity = req.quantity]
                    /\ pc' = "Submitted"
                    /\ result' = result
               ELSE /\ calls' = v.calls
                    /\ balance' = balance
                    /\ sent' = sent
                    /\ pc' = "Done"
                    /\ result' = Result("None", NoResponse, "error")
    /\ UNCHANGED <<success, env, argv, config, bot, exchange, ticker, req, gwOut, vcall>>

\* new_order answers: the rest of place_market_order
market_order_answered ==
    /\ pc = "Submitted" /\ bot = "market"
    /\ \E out \in OrderOutcomes :
         /\ gwOut' = out
         /\ result' = MarketOrderBot_order_result(out)
    /\ pc' = "Done"
    /\ UNCHANGED <<success, balance, env, argv, config, bot, exchange, ticker, cache, req, calls, checks, sent, vcall>>

\* main() with --dry-run and a single order
market_main_dry_run ==
    /\ pc = "Validating" /\ bot = "market" /\ req.dry_run
    /\ \E gw \in ExchangeInfoOutcomes :
         LET symbol == Upper(req.symbol)
             vs == MarketOrderBot_validate_symbol(cache, gw, symbol)
             vq == MarketOrderBot_validate_quantity(vs.cache, gw, symbol, req.quantity)
         IN IF ~vs.ret
            THEN /\ cache' = vs.cache /\ calls' = vs.calls
                 /\ checks' = <<Check("symbol", FALSE)>>
                 /\ result' = Result("exit1", NoResponse, "error")
            ELSE /\ cache' = vq.cache /\ calls' = vs.calls \o vq.calls
                 /\ checks' = <<Check("symbol", TRUE), Check("quantity", vq.ret)>>
                 /\ result' = IF vq.ret THEN Result("exit0", NoResponse, "dry_run")
                                        ELSE Result("exit1", NoResponse, "error")
    /\ pc' = "Done"
    /\ UNCHANGED <<success, balance, env, argv, config, bot, exchange, ticker, req, sent, gwOut, vcall>>

(***************************************************************************)
(* LimitOrderBot.place_limit_order                                         *)
(***************************************************************************)
\* mutant: the symbol is validated before the side is looked at
LimitOrderBot_checks_symbol_first(c, gw, symbol, side, quantity, price) ==
    LET vs == LimitOrderBot_validate_symbol(c, gw, symbol)
        vq == LimitOrderBot_validate_quantity(vs.cache, gw, symbol, quantity)
        vp == LimitOrderBot_validate_price(vq.cache, gw, symbol, price)
    IN IF ~vs.ret
       THEN [ok |-> FALSE, cache |-> vs.cache, calls |-> vs.calls,
             checks |-> <<Check("symbol", FALSE)>>]
       ELSE IF side \notin {"BUY", "SELL"}
       THEN [ok |-> FALSE, cache |-> vs.cache, calls |-> vs.calls,
             checks |-> <<Check("symbol", TRUE), Check("side", FALSE)>>]
       ELSE IF ~vq.ret
       THEN [ok |-> FALSE, cache |-> vq.cache, calls |-> vs.calls \o vq.calls,
             checks |-> <<Check("symbol", TRUE), Check("side", TRUE), Check("quantity", FALSE)>>]
       ELSE [ok |-> vp.ret, cache |-> vp.cache, calls |-> vs.calls \o vq.calls \o vp.calls,
             checks |-> <<Check("symbol", TRUE), Check("side", TRUE), Check("quantity", TRUE),
                          Check("price", vp.ret)>>]

LimitOrderBot_checks(c, gw, symbol, side, quantity, price) ==
    LET vs == LimitOrderBot_validate_symbol(c, gw, symbol)
        vq == LimitOrderBot_validate_quantity(vs.cache, gw, symbol, quantity)
        vp == LimitOrderBot_validate_price(vq.cache, gw, symbol, price)
    IN IF side \notin {"BUY", "SELL"}
       THEN [ok |-> FALSE, cache |-> c, calls |-> <<>>,
             checks |-> <<Check("side", FALSE)>>]
       ELSE IF ~vs.ret
       THEN [ok |-> FALSE, cache |-> vs.cache, calls |-> vs.calls,
             checks |-> <<Check("side", TRUE), Check("symbol", FALSE)>>]
       ELSE IF ~vq.ret
       THEN [ok |-> FALSE, cache |-> vq.cache, calls |-> vs.calls \o vq.calls,
             checks |-> <<Check("side", TRUE), Check("symbol", TRUE), Check("quantity", FALSE)>>]
       ELSE IF ~vp.ret
       THEN [ok |-> FALSE, cache |-> vp.cache, calls |-> vs.calls \o vq.calls \o vp.calls,
             checks |-> <<Check("side", TRUE), Check("symbol", TRUE), Check("quantity", TRUE),
                          Check("price", FALSE)>>]
       ELSE [ok |-> TRUE, cache |-> vp.cache, calls |-> vs.calls \o vq.calls \o vp.calls,
             checks |-> <<Check("side", TRUE), Check("symbol", TRUE), Check("quantity", TRUE),
                          Check("price", TRUE)>>]

\* the try / except around new_order
LimitOrderBot_order_result(out) ==
    IF ~out.raised THEN Result("response", out.response, "placed")
    ELSE IF out.error = "ClientError" THEN Result("None", NoResponse, "error")
    ELSE IF out.error = "ServerError" THEN Result("None", NoResponse, "error")
    ELSE Result("None", NoResponse, "error")

\* price is sent as str(price); the repr of a float reads back as the same float,
\* so the payload carries the number
place_limit_order ==
    /\ pc = "Validating" /\ bot = "limit" /\ ~req.dry_run
    /\ \E gw \in ExchangeInfoOutcomes, acc \in AccountOutcomes :
         LET symbol == Upper(req.symbol)
             side == Upper(req.side)
             v == LimitOrderBot_checks(cache, gw, symbol, side, req.quantity, req.price)
         IN /\ cache' = v.cache
            /\ checks' = v.checks
            /\ IF v.ok
               THEN /\ calls' = v.calls \o <<"account", "new_order">>
                    /\ balance' = get_account_balance(acc)
                    /\ sent' = [NoPayload EXCEPT !.symbol = symbol, !.side = side,
                                                 !.type = "LIMIT", !.quantity = req.quantity,
                                                 !.price = req.price]
                    /\ pc' = "Submitted"
                    /\ result' = result
               ELSE /\ calls' = v.calls
                    /\ balance' = balance
                    /\ sent' = sent
                    /\ pc' = "Done"
                    /\ result' = Result("None", NoResponse, "error")
    /\ UNCHANGED <<success, env, argv, config, bot, exchange, ticker, req, gwOut, vcall>>

\* mutant: a failed new_order is submitted again
limit_order_answered_retry ==
    /\ pc = "Submitted" /\ bot = "limit"
    /\ \E out \in OrderOutcomes :
         /\ gwOut' = out
         /\ IF out.raised /\ Len(calls) < 4
            THEN /\ calls' = calls \o <<"new_order">>
                 /\ pc' = "Submitted"
                 /\ result' = result
            ELSE /\ calls' = calls
                 /\ pc' = "Done"
                 /\ result' = LimitOrderBot_order_result(out)
    /\ UNCHANGED <<success, balance, env, argv, config, bot, exchange, ticker, cache, req, checks, sent, vcall>>

limit_order_answered ==
    /\ pc = "Submitted" /\ bot = "limit"
    /\ \E out \in OrderOutcomes :
         /\ gwOut' = out
         /\ result' = LimitOrderBot_order_result(out)
    /\ pc' = "Done"
    /\ UNCHANGED <<success, balance, env, argv, config, bot, exchange, ticker, cache, req, calls, checks, sent, vcall>>

\* main() with --dry-run
limit_main_dry_run ==
    /\ pc = "Validating" /\ bot = "limit" /\ req.dry_run
    /\ \E gw \in ExchangeInfoOutcomes :
         LET symbol == Upper(req.symbol)
             vs == LimitOrderBot_validate_symbol(cache, gw, symbol)
             vq == LimitOrderBot_validate_quantity(vs.cache, gw, symbol, req.quantity)
             vp == LimitOrderBot_validate_price(vq.cache, gw, symbol, req.price)
         IN IF ~vs.ret
            THEN /\ cache' = vs.cache /\ calls' = vs.calls
                 /\ checks' = <<Check("symbol", FALSE)>>
                 /\ result' = Result("exit1", NoResponse, "error")
            ELSE IF ~vq.ret
            THEN /\ cache' = vq.cache /\ calls' = vs.calls \o vq.calls
                 /\ checks' = <<Check("symbol", TRUE), Check("quantity", FALSE)>>
                 /\ result' = Result("exit1", NoResponse, "error")
            ELSE /\ cache' = vp.cache /\ calls' = vs.calls \o vq.calls \o vp.calls
                 /\ checks' = <<Check("symbol", TRUE), Check("quantity", TRUE),
                                Check("price", vp.ret)>>
                 /\ result' = IF vp.ret THEN Result("exit0", NoResponse, "dry_run")
                                        ELSE Result("exit1", NoResponse, "error")
    /\ pc' = "Done"
    /\ UNCHANGED <<success, balance, env, argv, config, bot, exchange, ticker, req, sent, gwOut, vcall>>

(***************************************************************************)
(* StopLimitOrderHandler                                                   *)
(***************************************************************************)
\* next((f for f in filters if f['filterType'] == t), None): position of the first, 0 for None
FirstFilter(filters, t) ==
    IF \E i \in 1..Len(filters) : filters[i].filterType = t
    THEN CHOOSE i \in 1..Len(filters) :
            /\ filters[i].filterType = t
            /\ \A j \in 1..(i-1) : filters[j].filterType # t
    ELSE 0

\* gw: outcome of futures_exchange_info(); tk: outcome of futures_symbol_ticker().
\* failed names the check that returned False ("none" when the verdict is True).
StopLimit_verdict(b, why, cs) == [ret |-> b, failed |-> why, calls |-> cs]

\* mutant: a BUY stop price equal to the current price is let through
StopLimitOrderHandler_validate_stop_limit_params_strict_less(gw, tk, symbol, side, quantity, stop_price, limit_price) ==
    IF gw.raised THEN StopLimit_verdict(FALSE, "exception", <<"futures_exchange_info">>)
    ELSE
    LET i == FirstMatch(gw.value, symbol) IN
    IF i = 0 THEN StopLimit_verdict(FALSE, "symbol", <<"futures_exchange_info">>)
    ELSE IF side \notin {"BUY", "SELL"}
    THEN StopLimit_verdict(FALSE, "side", <<"futures_exchange_info">>)
    ELSE
    LET fs == gw.value[i].filters
        l == FirstFilter(fs, "LOT_SIZE")
        p == FirstFilter(fs, "PRICE_FILTER")
        both == <<"futures_exchange_info", "futures_symbol_ticker">>
    IN
    IF l # 0 /\ (quantity < fs[l].minQty \/ quantity > fs[l].maxQty)
    THEN StopLimit_verdict(FALSE, "quantity", <<"futures_exchange_info">>)
    ELSE IF p # 0 /\ (stop_price < fs[p].minPrice \/ stop_price > fs[p].maxPrice)
    THEN StopLimit_verdict(FALSE, "stop_price", <<"futures_exchange_info">>)
    ELSE IF p # 0 /\ (limit_price < fs[p].minPrice \/ limit_price > fs[p].maxPrice)
    THEN StopLimit_verdict(FALSE, "limit_price", <<"futures_exchange_info">>)
    ELSE IF tk.raised THEN StopLimit_verdict(FALSE, "exception", both)
    ELSE IF side = "BUY"
    THEN IF stop_price < tk.value THEN StopLimit_verdict(FALSE, "direction", both)
         ELSE IF limit_price <= stop_price THEN StopLimit_verdict(FALSE, "direction", both)
         ELSE StopLimit_verdict(TRUE, "none", both)
    ELSE IF stop_price >= tk.value THEN StopLimit_verdict(FALSE, "direction", both)
         ELSE IF limit_price >= stop_price THEN StopLimit_verdict(FALSE, "direction", both)
         ELSE StopLimit_verdict(TRUE, "none", both)

StopLimitOrderHandler_validate_stop_limit_params(gw, tk, symbol, side, quantity, stop_price, limit_price) ==
    IF gw.raised THEN StopLimit_verdict(FALSE, "exception", <<"futures_exchange_info">>)
    ELSE
    LET i == FirstMatch(gw.value, symbol) IN
    IF i = 0 THEN StopLimit_verdict(FALSE, "symbol", <<"futures_exchange_info">>)
    ELSE IF side \notin {"BUY", "SELL"}
    THEN StopLimit_verdict(FALSE, "side", <<"futures_exchange_info">>)
    ELSE
    LET fs == gw.value[i].filters
        l == FirstFilter(fs, "LOT_SIZE")
        p == FirstFilter(fs, "PRICE_FILTER")
        both == <<"futures_exchange_info", "futures_symbol_ticker">>
    IN
    IF l # 0 /\ (quantity < fs[l].minQty \/ quantity > fs[l].maxQty)
    THEN StopLimit_verdict(FALSE, "quantity", <<"futures_exchange_info">>)
    ELSE IF p # 0 /\ (stop_price < fs[p].minPrice \/ stop_price > fs[p].maxPrice)
    THEN StopLimit_verdict(FALSE, "stop_price", <<"futures_exchange_info">>)
    ELSE IF p # 0 /\ (limit_price < fs[p].minPrice \/ limit_price > fs[p].maxPrice)
    THEN StopLimit_verdict(FALSE, "limit_price", <<"futures_exchange_info">>)
    ELSE IF tk.raised THEN StopLimit_verdict(FALSE, "exception", both)
    ELSE IF side = "BUY"
    THEN IF stop_price <= tk.value THEN StopLimit_verdict(FALSE, "direction", both)
         ELSE IF limit_price <= stop_price THEN StopLimit_verdict(FALSE, "direction", both)
         ELSE StopLimit_verdict(TRUE, "none", both)
    ELSE IF stop_price >= tk.value THEN StopLimit_verdict(FALSE, "direction", both)
         ELSE IF limit_price >= stop_price THEN StopLimit_verdict(FALSE, "direction", both)
         ELSE StopLimit_verdict(TRUE, "none", both)

\* the try / except around futures_create_order
\* mutant: only BinanceAPIException is caught
StopLimitOrderHandler_order_result_narrow_except(out) ==
    IF ~out.raised THEN Result("response", out.response, "placed")
    ELSE IF out.error = "BinanceAPIException" THEN Result("None", NoResponse, "error")
    ELSE Result(out.error, NoResponse, "none")

StopLimitOrderHandler_order_result(out) ==
    IF ~out.raised THEN Result("response", out.response, "placed")
    ELSE IF out.error = "BinanceAPIException" THEN Result("None", NoResponse, "error")
    ELSE Result("None", NoResponse, "error")

TickerOutcomes == { [raised |-> TRUE, value |-> 0], [raised |-> FALSE, value |-> ticker] }

place_stop_limit_order ==
    /\ pc = "Validating" /\ bot = "stop_limit"
    /\ \E gw \in ExchangeInfoOutcomes, tk \in TickerOutcomes :
         LET v == StopLimitOrderHandler_validate_stop_limit_params(
                     gw, tk, req.symbol, req.side, req.quantity, req.stop_price, req.limit_price)
         IN /\ checks' = <<Check("stop_limit_params", v.ret)>>
            /\ IF v.ret
               THEN /\ calls' = v.calls \o <<"futures_create_order">>
                    /\ sent' = [NoPayload EXCEPT !.symbol = req.symbol, !.side = req.side,
                                                 !.type = "STOP", !.quantity = req.quantity,
                                                 !.stopPrice = req.stop_price,
                                                 !.price = req.limit_price]
                    /\ pc' = "Submitted"
                    /\ result' = result
               ELSE /\ calls' = v.calls
                    /\ sent' = sent
                    /\ pc' = "Done"
                    /\ result' = Result("None", NoResponse, "error")
            /\ vcall' = VCall("validate_stop_limit_params", req.symbol, req.side, req.quantity,
                              0, req.stop_price, req.limit_price, v.ret, v.failed)
    /\ UNCHANGED <<success, balance, env, argv, config, bot, exchange, ticker, cache, req, gwOut>>

stop_limit_order_answered ==
    /\ pc = "Submitted" /\ bot = "stop_limit"
    /\ \E out \in OrderOutcomes :
         /\ gwOut' = out
         /\ result' = StopLimitOrderHandler_order_result(out)
    /\ pc' = "Done"
    /\ UNCHANGED <<success, balance, env, argv, config, bot, exchange, ticker, cache, req, calls, checks, sent, vcall>>

(***************************************************************************)
(* StopLimitOrderHandler.monitor_stop_limit_order                          *)
(***************************************************************************)
OrderStatuses == {"NEW", "PARTIALLY_FILLED", "FILLED", "CANCELED", "REJECTED", "EXPIRED"}

\* what futures_get_order may do: raise, or return the order with its status
\* mutant: the order stays open for ever and no poll fails
PollOutcomes_never_final ==
    { OrderReturned([orderId |-> 1, status |-> st]) : st \in {"NEW", "PARTIALLY_FILLED"} }

PollOutcomes ==
    { OrderRaised(e) : e \in {"BinanceAPIException", "Exception"} }
        \cup { OrderReturned([orderId |-> 1, status |-> st]) : st \in OrderStatuses }

\* one pass of the while True body: "return" the order, "sleep" and go round, or "break"
\* mutant: PARTIALLY_FILLED is taken for a final status
StopLimitOrderHandler_monitor_pass_partial_is_final(out) ==
    IF out.raised THEN "break"
    ELSE IF out.response.status \in {"FILLED", "CANCELED", "REJECTED", "EXPIRED", "PARTIALLY_FILLED"}
    THEN "return"
    ELSE "sleep"

StopLimitOrderHandler_monitor_pass(out) ==
    IF out.raised THEN "break"
    ELSE IF out.response.status \in {"FILLED", "CANCELED", "REJECTED", "EXPIRED"}
    THEN "return"
    ELSE "sleep"

\* main(): place_stop_limit_order returned the order, monitor_stop_limit_order is
\* called with its symbol and orderId and makes its first futures_get_order call
monitor_stop_limit_order ==
    /\ pc = "Done" /\ bot = "stop_limit"
    /\ req.type = "STOP_LIMIT" /\ result.kind = "response"
    /\ req' = Request("MONITOR", req.symbol, "", 0, 0, 0, 0, 0, FALSE)
    /\ pc' = "Polling"
    /\ calls' = <<"futures_get_order">>
    /\ checks' = <<>> /\ sent' = NoPayload /\ gwOut' = NoOutcome
    /\ result' = NoResult /\ vcall' = NoCall
    /\ UNCHANGED <<success, balance, env, argv, config, bot, exchange, ticker, cache>>

\* futures_get_order answers: the rest of the pass, up to the return or into time.sleep
\* mutant: the sleep comes before the look at the status
monitor_order_polled_sleeps_first ==
    /\ pc = "Polling"
    /\ \E out \in PollOutcomes :
         LET pass == StopLimitOrderHandler_monitor_pass(out) IN
         /\ gwOut' = out
         /\ IF pass = "break"
            THEN /\ pc' = "Done" /\ calls' = calls
                 /\ result' = Result("{}", NoResponse, "error")
            ELSE IF pass = "return"
            THEN /\ pc' = "Done" /\ calls' = calls \o <<"time.sleep">>
                 /\ result' = Result("response", out.response, "final")
            ELSE /\ pc' = "Sleeping" /\ calls' = calls \o <<"time.sleep">>
                 /\ result' = result
    /\ UNCHANGED <<success, balance, env, argv, config, bot, exchange, ticker, cache, req, checks, sent, vcall>>

monitor_order_polled ==
    /\ pc = "Polling"
    /\ \E out \in PollOutcomes :
         LET pass == StopLimitOrderHandler_monitor_pass(out) IN
         /\ gwOut' = out
         /\ IF pass = "break"
            THEN /\ pc' = "Done" /\ calls' = calls
                 /\ result' = Result("{}", NoResponse, "error")
            ELSE IF pass = "return"
            THEN /\ pc' = "Done" /\ calls' = calls
                 /\ result' = Result("response", out.response, "final")
            ELSE /\ pc' = "Sleeping" /\ calls' = calls \o <<"time.sleep">>
                 /\ result' = result
    /\ UNCHANGED <<success, balance, env, argv, config, bot, exchange, ticker, cache, req, checks, sent, vcall>>

Polls == { i \in 1..Len(calls) : calls[i] = "futures_get_order" }

\* time.sleep(check_interval) returns: the next pass makes its futures_get_order call.
\* The loop has no counter; past MaxPolls passes the record of the pass just ended
\* makes room for the record of the next.
\* mutant: a poll that raised is tried again
monitor_sleep_over_retries ==
    /\ pc = "Sleeping" \/ (pc = "Done" /\ req.type = "MONITOR" /\ gwOut.raised)
    /\ pc' = "Polling"
    /\ calls' = IF Cardinality(Polls) < MaxPolls
                THEN calls \o <<"futures_get_order">>
                ELSE IF pc = "Sleeping" THEN SubSeq(calls, 1, Len(calls) - 1) ELSE calls
    /\ UNCHANGED <<success, balance, env, argv, config, bot, exchange, ticker, cache, req, checks, sent, gwOut, result, vcall>>

monitor_sleep_over ==
    /\ pc = "Sleeping"
    /\ pc' = "Polling"
    /\ calls' = IF Cardinality(Polls) < MaxPolls
                THEN calls \o <<"futures_get_order">>
                ELSE SubSeq(calls, 1, Len(calls) - 1)
    /\ UNCHANGED <<success, balance, env, argv, config, bot, exchange, ticker, cache, req, checks, sent, gwOut, result, vcall>>

(***************************************************************************)
(* BinanceOCOBot.place_oco_order                                           *)
(***************************************************************************)
\* what place_oco_order does up to the try: raises ValueError for the side or for a
\* non-positive value, returns at the dry-run check, or goes on to place the order
\* mutant: the dry_run flag is not looked at
BinanceOCOBot_branch_ignores_dry_run(side, quantity, price, stop_price, stop_limit_price, dry_run) ==
    IF side \notin {"BUY", "SELL"} THEN "ValueError_side"
    ELSE IF \E val \in {quantity, price, stop_price, stop_limit_price} : val <= 0
    THEN "ValueError_positive"
    ELSE "order"

BinanceOCOBot_branch(side, quantity, price, stop_price, stop_limit_price, dry_run) ==
    IF side \notin {"BUY", "SELL"} THEN "ValueError_side"
    ELSE IF \E val \in {quantity, price, stop_price, stop_limit_price} : val <= 0
    THEN "ValueError_positive"
    ELSE IF dry_run THEN "dry_run"
    ELSE "order"

\* the try / except around order_oco_buy / order_oco_sell; the function returns None either way
BinanceOCOBot_order_result(out) ==
    IF ~out.raised THEN Result("None", NoResponse, "placed")
    ELSE Result("None", NoResponse, "error")

place_oco_order ==
    /\ pc = "Validating" /\ bot = "oco"
    /\ LET symbol == Upper(req.symbol)
           side == Upper(req.side)
           br == BinanceOCOBot_branch(side, req.quantity, req.price,
                                      req.stop_price, req.stop_limit_price, req.dry_run)
       IN /\ checks' = IF br = "ValueError_side" THEN <<Check("side", FALSE)>>
                       ELSE <<Check("side", TRUE), Check("positive", br # "ValueError_positive")>>
          /\ IF br \in {"ValueError_side", "ValueError_positive"}
             THEN /\ pc' = "Done"
                  /\ result' = Result("ValueError", NoResponse, "error")
                  /\ UNCHANGED <<success, calls, sent>>
             ELSE IF br = "dry_run"
             THEN /\ pc' = "Done"
                  /\ result' = Result("None", NoResponse, "dry_run")
                  /\ UNCHANGED <<success, calls, sent>>
             ELSE /\ pc' = "Submitted"
                  /\ calls' = <<IF side = "SELL" THEN "order_oco_sell" ELSE "order_oco_buy">>
                  /\ sent' = [NoPayload EXCEPT !.symbol = symbol, !.side = side, !.type = "OCO",
                                               !.quantity = req.quantity, !.price = req.price,
                                               !.stopPrice = req.stop_price,
                                               !.stopLimitPrice = req.stop_limit_price]
                  /\ result' = result
    /\ UNCHANGED <<success, balance, env, argv, config, bot, exchange, ticker, cache, req, gwOut, vcall>>

oco_order_answered ==
    /\ pc = "Submitted" /\ bot = "oco"
    /\ \E out \in OrderOutcomes :
         /\ gwOut' = out
         /\ result' = BinanceOCOBot_order_result(out)
    /\ pc' = "Done"
    /\ UNCHANGED <<success, balance, env, argv, config, bot, exchange, ticker, cache, req, calls, checks, sent, vcall>>

(***************************************************************************)
(* One process                                                             *)
(***************************************************************************)
RequestsOf(b) ==
    CASE b = "market" -> { r \in MarketRequests : r.dry_run => r.side \in ArgparseSides }
      [] b = "limit"  -> { r \in LimitRequests : r.dry_run => r.side \in ArgparseSides }
      [] b = "stop_limit" -> StopLimitRequests
      [] b = "oco"    -> OcoRequests

\* a new request is handed to the entry point
Start ==
    /\ pc = "Idle"
    /\ \E r \in RequestsOf(bot) : req' = r
    /\ pc' = "Validating"
    /\ UNCHANGED <<success, balance, env, argv, config, bot, exchange, ticker, cache, calls, checks, sent, gwOut, result, vcall>>

\* the caller has taken the result; the bot object (and its cache) lives on
Finish ==
    /\ pc = "Done"
    /\ pc' = "Idle"
    /\ req' = NoReq
    /\ calls' = <<>> /\ checks' = <<>>
    /\ sent' = NoPayload /\ gwOut' = NoOutcome /\ result' = NoResult
    /\ vcall' = NoCall
    /\ balance' = "none"
    /\ UNCHANGED <<success, env, argv, config, bot, exchange, ticker, cache>>

\* the exchange publishes another listing between two dispatches
ExchangeChanges ==
    /\ pc = "Idle"
    /\ \E l \in Listings \ {exchange} : exchange' = l
    /\ UNCHANGED <<success, balance, env, argv, config, bot, ticker, cache, req, pc, calls, checks, sent, gwOut, result, vcall>>

\* the market price moves between two dispatches
TickerMoves ==
    /\ pc = "Idle" /\ bot = "stop_limit"
    /\ \E t \in (2..MaxTicker) \ {ticker} : ticker' = t
    /\ UNCHANGED <<success, balance, env, argv, config, bot, exchange, cache, req, pc, calls, checks, sent, gwOut, result, vcall>>

Init ==
    /\ bot \in {"market", "limit", "stop_limit", "oco"}
    /\ exchange \in Listings
    /\ ticker \in IF bot = "stop_limit" THEN 2..MaxTicker ELSE {2}
    /\ cache = EmptyCache
    /\ req = NoReq
    /\ pc = "Idle"
    /\ calls = <<>> /\ checks = <<>>
    /\ sent = NoPayload /\ gwOut = NoOutcome /\ result = NoResult
    /\ vcall = NoCall
    /\ balance = "none"
    /\ env = FullEnv /\ argv = NoArgv /\ config = NoConfig /\ success = TRUE

Next ==
    \/ Start
    \/ Finish
    \/ ExchangeChanges
    \/ TickerMoves
    \/ place_market_order
    \/ market_order_answered
    \/ market_main_dry_run
    \/ place_limit_order
    \/ limit_order_answered
    \/ limit_main_dry_run
    \/ place_stop_limit_order
    \/ stop_limit_order_answered
    \/ place_oco_order
    \/ oco_order_answered
    \/ monitor_stop_limit_order
    \/ monitor_order_polled
    \/ monitor_sleep_over

Spec == Init /\ [][Next]_vars

\* The scripts are one synchronous call stack: a step that can run does run, and
\* a gateway call that was made returns or raises.
FairSpec ==
    /\ Spec
    /\ WF_vars(place_market_order) /\ WF_vars(market_order_answered)
    /\ WF_vars(market_main_dry_run)
    /\ WF_vars(place_limit_order) /\ WF_vars(limit_order_answered)
    /\ WF_vars(limit_main_dry_run)
    /\ WF_vars(place_stop_limit_order) /\ WF_vars(stop_limit_order_answered)
    /\ WF_vars(place_oco_order) /\ WF_vars(oco_order_answered)

\* a poll is answered with a final status or with an exception
monitor_ends == monitor_order_polled /\ pc' = "Done"

\* The status poller: a futures_get_order call returns or raises and time.sleep
\* returns (weak fairness); the exchange does not answer NEW / PARTIALLY_FILLED
\* for ever: a final status or an exception comes at some poll (strong fairness).
MonitorFairSpec ==
    /\ Spec
    /\ WF_vars(monitor_order_polled) /\ WF_vars(monitor_sleep_over)
    /\ SF_vars(monitor_ends)

(***************************************************************************)
(* The command line: bot.py and the order scripts run from the shell       *)
(***************************************************************************)
Envs == { Env(k, sk, fs) : k \in BOOLEAN, sk \in BOOLEAN, fs \in SUBSET OrderTypes }

ConfigValidator_validate_environment_key_only(e) == e.api_key

ConfigValidator_validate_environment(e) == e.api_key /\ e.secret_key

ConfigValidator_validate_scripts(e) == [t \in OrderTypes |-> t \in e.scripts]

\* args is everything after the order type (argparse.REMAINDER), options included
validate_order_args(order_type, args) ==
    LET required == CASE order_type = "market"     -> 3
                      [] order_type = "limit"      -> 4
                      [] order_type = "oco"        -> 6
                      [] order_type = "stop_limit" -> 5
                      [] order_type = "twap"       -> 5
                      [] OTHER                     -> 0
    IN ~(args < required)

\* run_order_script up to subprocess.run: "False" or "run"
run_order_script(e, order_type, args) ==
    IF ~validate_order_args(order_type, args) THEN "False"
    ELSE IF order_type \notin e.scripts THEN "False"
    ELSE "run"

BotArgvs ==
    { Argv(t, n, o, FALSE, FALSE) :
        t \in OrderTypes \cup {"validate", "ml_track"}, n \in 0..MaxPositional, o \in 0..1 }

\* how the ml_track branch of main ends
TrackOutcomes == {"returned", "unavailable", "BinanceBotError", "Exception", "KeyboardInterrupt"}

\* the exit of main() of bot.py from the handlers of its try
bot_main_exit(out) ==
    CASE out = "returned"          -> Result("exit0", NoResponse, "tracked")
      [] out = "KeyboardInterrupt" -> Result("exit0", NoResponse, "cancelled")
      [] OTHER                     -> Result("exit1", NoResponse, "error")

\* main() of bot.py, up to its exit or up to subprocess.run
bot_main ==
    /\ pc = "Idle" /\ bot = "top"
    /\ \E a \in BotArgvs, track \in TrackOutcomes :
         /\ argv' = a
         /\ IF ~ConfigValidator_validate_environment(env)
            THEN /\ pc' = "Exited" /\ calls' = calls
                 /\ result' = Result("exit1", NoResponse, "error")
            ELSE IF a.order_type = "validate"
            THEN /\ pc' = "Exited" /\ calls' = calls
                 /\ result' = IF \E t \in OrderTypes : ~ConfigValidator_validate_scripts(env)[t]
                              THEN Result("exit1", NoResponse, "error")
                              ELSE Result("exit0", NoResponse, "ready")
            ELSE IF a.order_type \in OrderTypes
            THEN IF run_order_script(env, a.order_type, a.positional + a.options) = "False"
                 THEN /\ pc' = "Exited" /\ calls' = calls
                      /\ result' = Result("exit1", NoResponse, "error")
                 ELSE /\ pc' = "Subprocess" /\ calls' = <<"subprocess.run">>
                      /\ result' = result
            ELSE /\ pc' = "Exited" /\ calls' = calls
                 /\ result' = bot_main_exit(track)
    /\ UNCHANGED <<success, bot, exchange, ticker, cache, req, checks, sent, gwOut, vcall,
                   balance, env, config>>

\* what subprocess.run(..., check=True, timeout=30) does in the end
SubprocessOutcomes ==
    { OrderReturned(NoResponse) }
        \cup { OrderRaised(e) : e \in {"CalledProcessError", "TimeoutExpired", "Exception",
                                      "KeyboardInterrupt"} }

\* the rest of run_order_script and of main(): the exit code of bot.py
bot_order_exit(out) ==
    IF ~out.raised THEN Result("exit0", NoResponse, "placed")
    ELSE IF out.error = "KeyboardInterrupt" THEN Result("exit0", NoResponse, "cancelled")
    ELSE Result("exit1", NoResponse, "error")

order_script_ends ==
    /\ pc = "Subprocess" /\ bot = "top"
    /\ \E out \in SubprocessOutcomes :
         /\ gwOut' = out
         /\ result' = bot_order_exit(out)
    /\ pc' = "Exited"
    /\ UNCHANGED <<success, bot, exchange, ticker, cache, req, calls, checks, sent, vcall,
                   balance, env, argv, config>>

\* how the call made by main() of an order script ends: place_* returns the order or
\* None, the dry-run validation passes or fails, or an exception leaves the call
ScriptOutcomes(a) ==
    (IF a.dry_run THEN {"valid", "invalid"} ELSE {"response", "None"})
        \cup {"KeyboardInterrupt", "Exception"}

\* the return value of main() of market_orders.py, which is the exit code
market_main_exit(out) ==
    CASE out = "response"          -> Result("exit0", NoResponse, "placed")
      [] out = "valid"             -> Result("exit0", NoResponse, "dry_run")
      [] out = "KeyboardInterrupt" -> Result("exit130", NoResponse, "cancelled")
      [] OTHER                     -> Result("exit1", NoResponse, "error")

\* SYMBOL SIDE QUANTITY [--dry-run], or --config FILE
ScriptArgvs ==
    { Argv("none", 3, o, o = 1, FALSE) : o \in 0..1 } \cup { Argv("none", 0, 1, FALSE, TRUE) }

\* str.lower on the 'type' of an order of the config
Lower(s) == IF s = "MARKET" THEN "market" ELSE s

Orders(n) == [1..n -> {[type |-> t] : t \in {"market", "MARKET", "limit"}}]

\* what _load_config may give: an exception (kind "raise"), or the JSON object of
\* the file
LoadOutcomes ==
    {Config("raise", <<>>), Config("{}", <<>>)}
        \cup { Config("dict", os) : os \in UNION { Orders(n) : n \in 0..MaxOrders } }

\* main() of market_orders.py up to the call of place_market_order (or of the
\* validators, for a dry run, or of execute_from_config): MarketOrderBot() raises
\* ValueError without credentials, and whatever _load_config raises
market_main ==
    /\ pc = "Idle" /\ bot = "market"
    /\ \E a \in ScriptArgvs, ld \in LoadOutcomes :
         /\ argv' = a
         /\ IF ~(env.api_key /\ env.secret_key) \/ (a.config /\ ld.kind = "raise")
            THEN /\ pc' = "Exited" /\ calls' = calls /\ config' = config
                 /\ result' = market_main_exit("Exception")
            ELSE IF a.config
            THEN /\ pc' = "Config" /\ calls' = <<"execute_from_config">>
                 /\ config' = ld
                 /\ result' = result
            ELSE /\ pc' = "Placing" /\ config' = config
                 /\ calls' = <<IF a.dry_run THEN "validate_symbol" ELSE "place_market_order">>
                 /\ result' = result
    /\ UNCHANGED <<success, bot, exchange, ticker, cache, req, checks, sent, gwOut, vcall,
                   balance, env>>

\* execute_from_config() called on a bot that was built without a config file
call_execute_from_config ==
    /\ pc = "Idle" /\ bot = "market"
    /\ env.api_key /\ env.secret_key
    /\ pc' = "Config"
    /\ calls' = <<"execute_from_config">>
    /\ UNCHANGED <<success, bot, exchange, ticker, cache, req, checks, sent, gwOut, result,
                   vcall, balance, env, argv, config>>

\* how place_market_order ends for one order of the config
DispatchOutcomes == {"response", "None", "raise"}

\* mutant: the loop is left at the first order that fails
execute_from_config_entry_stops ==
    /\ pc = "Config" /\ config.kind = "dict"
    /\ Len(checks) < Len(config.orders)
    /\ LET order == config.orders[Len(checks) + 1]
       IN IF Lower(order.type) = "market"
          THEN \E out \in DispatchOutcomes :
                 /\ calls' = calls \o <<"place_market_order">>
                 /\ checks' = checks \o <<Check("dispatched", out = "response")>>
                 /\ success' = IF out = "response" THEN success ELSE FALSE
                 /\ pc' = IF out = "response" THEN pc
                          ELSE IF argv.config THEN "Exited" ELSE "Done"
                 /\ result' = IF out = "response" THEN result
                              ELSE IF argv.config THEN market_main_exit("None")
                              ELSE Result("False", NoResponse, "error")
          ELSE /\ calls' = calls
               /\ checks' = checks \o <<Check("skipped", TRUE)>>
               /\ success' = success /\ pc' = pc /\ result' = result
    /\ UNCHANGED <<bot, exchange, ticker, cache, req, sent, gwOut, vcall,
                   balance, env, argv, config>>

\* one pass of the for loop of execute_from_config: checks keeps, per order, whether
\* it was dispatched and whether place_market_order returned an order
execute_from_config_entry ==
    /\ pc = "Config" /\ config.kind = "dict"
    /\ Len(checks) < Len(config.orders)
    /\ LET order == config.orders[Len(checks) + 1]
       IN IF Lower(order.type) = "market"
          THEN \E out \in DispatchOutcomes :
                 /\ calls' = calls \o <<"place_market_order">>
                 /\ checks' = checks \o <<Check("dispatched", out = "response")>>
                 /\ success' = IF out = "response" THEN success ELSE FALSE
          ELSE /\ calls' = calls
               /\ checks' = checks \o <<Check("skipped", TRUE)>>
               /\ success' = success
    /\ UNCHANGED <<bot, exchange, ticker, cache, req, pc, sent, gwOut, result, vcall,
                   balance, env, argv, config>>

\* the return of execute_from_config (False at once when self.config is falsy) and,
\* under main(), the exit code made of it
execute_from_config_returns ==
    /\ pc = "Config"
    /\ config.kind = "dict" => Len(checks) = Len(config.orders)
    /\ LET ret == IF config.kind = "dict" THEN success ELSE FALSE
       IN /\ success' = ret
          /\ result' = IF argv.config
                       THEN market_main_exit(IF ret THEN "response" ELSE "None")
                       ELSE Result(IF ret THEN "True" ELSE "False", NoResponse,
                                   IF ret THEN "placed" ELSE "error")
    /\ pc' = IF argv.config THEN "Exited" ELSE "Done"
    /\ UNCHANGED <<bot, exchange, ticker, cache, req, calls, checks, sent, gwOut, vcall,
                   balance, env, argv, config>>

market_main_ends ==
    /\ pc = "Placing" /\ bot = "market"
    /\ \E out \in ScriptOutcomes(argv) : result' = market_main_exit(out)
    /\ pc' = "Exited"
    /\ UNCHANGED <<success, bot, exchange, ticker, cache, req, calls, checks, sent, gwOut, vcall,
                   balance, env, argv, config>>

\* the return value of main() of limit_orders.py
limit_main_exit(out) ==
    CASE out = "response"          -> Result("exit0", NoResponse, "placed")
      [] out = "valid"             -> Result("exit0", NoResponse, "dry_run")
      [] out = "KeyboardInterrupt" -> Result("exit130", NoResponse, "cancelled")
      [] OTHER                     -> Result("exit1", NoResponse, "error")

limit_main ==
    /\ pc = "Idle" /\ bot = "limit"
    /\ \E a \in { Argv("none", 4, o, o = 1, FALSE) : o \in 0..1 } :
         /\ argv' = a
         /\ IF ~(env.api_key /\ env.secret_key)
            THEN /\ pc' = "Exited" /\ calls' = calls
                 /\ result' = limit_main_exit("Exception")
            ELSE /\ pc' = "Placing"
                 /\ calls' = <<IF a.dry_run THEN "validate_symbol" ELSE "place_limit_order">>
                 /\ result' = result
    /\ UNCHANGED <<success, bot, exchange, ticker, cache, req, checks, sent, gwOut, vcall,
                   balance, env, config>>

limit_main_ends ==
    /\ pc = "Placing" /\ bot = "limit"
    /\ \E out \in ScriptOutcomes(argv) : result' = limit_main_exit(out)
    /\ pc' = "Exited"
    /\ UNCHANGED <<success, bot, exchange, ticker, cache, req, calls, checks, sent, gwOut, vcall,
                   balance, env, argv, config>>

\* main() of stop_limit_orders.py: the client is built from literal keys, the
\* environment is not read; place_stop_limit_order starts with futures_exchange_info
stop_limit_main ==
    /\ pc = "Idle" /\ bot = "stop_limit"
    /\ argv' = Argv("none", 0, 0, FALSE, FALSE)
    /\ pc' = "Placing"
    /\ calls' = <<"place_stop_limit_order", "futures_exchange_info">>
    /\ UNCHANGED <<success, bot, exchange, ticker, cache, req, checks, sent, gwOut, result, vcall,
                   balance, env, config>>

\* main() of stop_limit_orders.py returns nothing whatever place_stop_limit_order and
\* monitor_stop_limit_order returned: the exit code is 0
stop_limit_main_ends ==
    /\ pc = "Placing" /\ bot = "stop_limit"
    /\ \E out \in {"response", "None"} :
         result' = Result("exit0", NoResponse, IF out = "response" THEN "placed" ELSE "error")
    /\ pc' = "Exited"
    /\ UNCHANGED <<success, bot, exchange, ticker, cache, req, calls, checks, sent, gwOut, vcall,
                   balance, env, argv, config>>

\* BinanceOCOBot(): sys.exit(1) without credentials, else the client is built and
\* tried with get_account(), which ends the process too when it fails
BinanceOCOBot_init ==
    /\ pc = "Idle" /\ bot = "oco"
    /\ argv' = Argv("none", 0, 0, FALSE, FALSE)
    /\ IF ~(env.api_key /\ env.secret_key)
       THEN /\ pc' = "Exited" /\ calls' = calls
            /\ result' = Result("exit1", NoResponse, "error")
       ELSE \E ok \in BOOLEAN :
            /\ calls' = <<"get_account">>
            /\ pc' = IF ok THEN "Done" ELSE "Exited"
            /\ result' = IF ok THEN result ELSE Result("exit1", NoResponse, "error")
    /\ UNCHANGED <<success, bot, exchange, ticker, cache, req, checks, sent, gwOut, vcall,
                   balance, env, config>>

\* only bot.py looks for the script files
CliInit ==
    /\ bot \in {"top", "market", "limit", "stop_limit", "oco"}
    /\ env \in Envs
    /\ bot # "top" => env.scripts = OrderTypes
    /\ exchange \in Listings
    /\ ticker = 2
    /\ cache = EmptyCache
    /\ req = NoReq
    /\ pc = "Idle"
    /\ calls = <<>> /\ checks = <<>>
    /\ sent = NoPayload /\ gwOut = NoOutcome /\ result = NoResult
    /\ vcall = NoCall
    /\ balance = "none"
    /\ argv = NoArgv /\ config = NoConfig /\ success = TRUE

CliNext ==
    \/ bot_main
    \/ order_script_ends
    \/ market_main
    \/ market_main_ends
    \/ call_execute_from_config
    \/ execute_from_config_entry
    \/ execute_from_config_returns
    \/ limit_main
    \/ limit_main_ends
    \/ stop_limit_main
    \/ stop_limit_main_ends
    \/ BinanceOCOBot_init

CliSpec == CliInit /\ [][CliNext]_vars

(***************************************************************************)
(* The validators called directly, on a wide range of filters and values   *)
(***************************************************************************)
ValLotSizes ==
    { LotSize(lo, hi, st) : lo \in 0..MaxFilter, hi \in 0..MaxFilter, st \in 0..MaxStep }

ValPriceFilters ==
    { PriceFilter(lo, hi, tk) : lo \in 0..MaxFilter, hi \in 0..MaxFilter, tk \in 0..MaxStep }

ValFilterLists ==
    {<<>>} \cup { <<f>> : f \in { g \in ValLotSizes : g.minQty <= g.maxQty } }
           \cup { <<f>> : f \in { g \in ValPriceFilters : g.minPrice <= g.maxPrice } }
           \cup { <<LotSize(1, MaxFilter, 1), PriceFilter(1, MaxFilter, tk)>> : tk \in 0..MaxStep }

ValListings ==
    { << SymbolInfo("BTCUSDT", st, fs) >> : st \in {"TRADING", "BREAK"}, fs \in ValFilterLists }

ValSymbols == {"BTCUSDT", "btcusdt", "XRPUSDT"}
ValArgs == (-1)..MaxArg

ValInit ==
    /\ bot \in {"market", "limit", "stop_limit"}
    /\ exchange \in ValListings
    /\ ticker = 1
    /\ cache = EmptyCache
    /\ req = NoReq
    /\ pc = "Idle"
    /\ calls = <<>> /\ checks = <<>>
    /\ sent = NoPayload /\ gwOut = NoOutcome /\ result = NoResult
    /\ vcall = NoCall
    /\ balance = "none"
    /\ env = FullEnv /\ argv = NoArgv /\ config = NoConfig /\ success = TRUE

\* "exception" when the validator called exchange_info() and the call raised
ExceptBranch(v, gw) == IF v.calls # <<>> /\ gw.raised THEN "exception" ELSE "none"

call_validate_symbol ==
    /\ pc = "Idle"
    /\ pc' = "Done"
    /\ bot \in {"market", "limit"}
    /\ \E symbol \in ValSymbols, gw \in ExchangeInfoOutcomes :
         LET v == IF bot = "market" THEN MarketOrderBot_validate_symbol(cache, gw, symbol)
                                    ELSE LimitOrderBot_validate_symbol(cache, gw, symbol)
         IN /\ cache' = v.cache
            /\ calls' = v.calls
            /\ vcall' = VCall("validate_symbol", symbol, "", 0, 0, 0, 0, v.ret, ExceptBranch(v, gw))
    /\ UNCHANGED <<success, balance, env, argv, config, bot, exchange, ticker, req, checks, sent, gwOut, result>>

call_validate_quantity ==
    /\ pc = "Idle"
    /\ pc' = "Done"
    /\ bot \in {"market", "limit"}
    /\ \E symbol \in ValSymbols, quantity \in ValArgs, gw \in ExchangeInfoOutcomes :
         LET v == IF bot = "market"
                  THEN MarketOrderBot_validate_quantity(cache, gw, symbol, quantity)
                  ELSE LimitOrderBot_validate_quantity(cache, gw, symbol, quantity)
         IN /\ cache' = v.cache
            /\ calls' = v.calls
            /\ vcall' = VCall("validate_quantity", symbol, "", quantity, 0, 0, 0, v.ret,
                              ExceptBranch(v, gw))
    /\ UNCHANGED <<success, balance, env, argv, config, bot, exchange, ticker, req, checks, sent, gwOut, result>>

call_validate_price ==
    /\ pc = "Idle"
    /\ pc' = "Done"
    /\ bot = "limit"
    /\ \E symbol \in ValSymbols, price \in ValArgs, gw \in ExchangeInfoOutcomes :
         LET v == LimitOrderBot_validate_price(cache, gw, symbol, price)
         IN /\ cache' = v.cache
            /\ calls' = v.calls
            /\ vcall' = VCall("validate_price", symbol, "", 0, price, 0, 0, v.ret,
                              ExceptBranch(v, gw))
    /\ UNCHANGED <<success, balance, env, argv, config, bot, exchange, ticker, req, checks, sent, gwOut, result>>

call_validate_stop_limit_params ==
    /\ pc = "Idle"
    /\ pc' = "Done"
    /\ bot = "stop_limit"
    /\ \E symbol \in ValSymbols, side \in {"BUY", "SELL"}, quantity \in ValArgs,
          stop_price \in 0..MaxArg, limit_price \in 0..MaxArg,
          gw \in ExchangeInfoOutcomes, tk \in TickerOutcomes :
         LET v == StopLimitOrderHandler_validate_stop_limit_params(
                     gw, tk, symbol, side, quantity, stop_price, limit_price)
         IN /\ calls' = v.calls
            /\ vcall' = VCall("validate_stop_limit_params", symbol, side, quantity, 0,
                              stop_price, limit_price, v.ret, v.failed)
    /\ UNCHANGED <<success, balance, env, argv, config, bot, exchange, ticker, cache, req, checks, sent, gwOut, result>>

\* main() of the market script with --dry-run and --config, the config holding one
\* market order: validate_symbol, then validate_quantity whatever the first verdict
\* was, then the exit code.  First step: the validate_symbol call.
market_dry_run_config_symbol ==
    /\ pc = "Idle" /\ bot = "market"
    /\ pc' = "Validating"
    /\ \E symbol \in ValSymbols, gw \in ExchangeInfoOutcomes :
         LET v == MarketOrderBot_validate_symbol(cache, gw, Upper(symbol))
         IN /\ cache' = v.cache
            /\ calls' = v.calls
            /\ checks' = <<Check("symbol", v.ret)>>
            /\ vcall' = VCall("validate_symbol", Upper(symbol), "", 0, 0, 0, 0, v.ret,
                              ExceptBranch(v, gw))
    /\ UNCHANGED <<success, balance, env, argv, config, bot, exchange, ticker, req, sent, gwOut, result>>

\* second step: the validate_quantity call on the same symbol, and the return
market_dry_run_config_quantity ==
    /\ pc = "Validating" /\ bot = "market" /\ vcall.fn = "validate_symbol"
    /\ pc' = "Done"
    /\ \E quantity \in ValArgs, gw \in ExchangeInfoOutcomes :
         LET v == MarketOrderBot_validate_quantity(cache, gw, vcall.symbol, quantity)
             valid == checks[1].ok /\ v.ret
         IN /\ cache' = v.cache
            /\ calls' = calls \o v.calls
            /\ checks' = checks \o <<Check("quantity", v.ret)>>
            /\ vcall' = VCall("validate_quantity", vcall.symbol, "", quantity, 0, 0, 0, v.ret,
                              ExceptBranch(v, gw))
            /\ result' = IF valid THEN Result("exit0", NoResponse, "dry_run")
                                  ELSE Result("exit1", NoResponse, "error")
    /\ UNCHANGED <<success, balance, env, argv, config, bot, exchange, ticker, req, sent, gwOut>>

ValNext ==
    \/ Finish
    \/ market_dry_run_config_symbol
    \/ market_dry_run_config_quantity
    \/ call_validate_symbol
    \/ call_validate_quantity
    \/ call_validate_price
    \/ call_validate_stop_limit_params

ValSpec == ValInit /\ [][ValNext]_vars

(***************************************************************************)
(* Properties                                                              *)
(***************************************************************************)
CreateEndpoints == {"new_order", "futures_create_order", "order_oco_buy", "order_oco_sell"}

\* positions in calls at which an order-creation endpoint was called
Creations == { i \in 1..Len(calls) : calls[i] \in CreateEndpoints }
Created == Creations # {}

AllChecksPassed == \A i \in 1..Len(checks) : checks[i].ok
CheckNames == [i \in 1..Len(checks) |-> checks[i].name]

\* the validations each entry point runs on a request before it creates the order
ApplicableChecks(t) ==
    CASE t = "MARKET"     -> <<"side", "symbol", "quantity">>
      [] t = "LIMIT"      -> <<"side", "symbol", "quantity", "price">>
      [] t = "STOP_LIMIT" -> <<"stop_limit_params">>
      [] t = "OCO"        -> <<"side", "positive">>
      [] OTHER            -> <<>>

\* C1: for every order type, order creation is called only after every
\* applicable validation of the request has run and passed; no request with a
\* failed validation reaches the order-creation endpoint, and creation is the
\* last gateway call of the dispatch.
C1_CreateOnlyAfterValidation ==
    Created =>
        /\ CheckNames = ApplicableChecks(req.type)
        /\ AllChecksPassed
        /\ Creations = {Len(calls)}

C1_Witness ==
    /\ pc = "Submitted" /\ req.type = "MARKET" /\ Created
    /\ Len(checks) = 3 /\ AllChecksPassed

\* C2: with the dry-run flag set the run validates and finishes without ever
\* calling an order-creation endpoint, whether validation passes or fails; it
\* reports a simulated success exactly when every validation passed.
C2_DryRunNeverCreates ==
    req.dry_run =>
        /\ ~Created
        /\ pc # "Submitted"
        /\ pc = "Done" =>
              /\ checks # <<>>
              /\ result.log \in {"dry_run", "error"}
              /\ (result.log = "dry_run") <=> AllChecksPassed

C2_Witness ==
    /\ req.dry_run /\ req.type = "OCO" /\ pc = "Done"
    /\ AllChecksPassed /\ result.log = "dry_run"

\* C3: an exception raised by the order-creation endpoint (client error,
\* server error or any other exception) never leaves the place_* function:
\* the function returns None after logging the failure.
C3_GatewayExceptionsCaught ==
    /\ result.kind \notin GatewayErrors
    /\ (pc = "Done" /\ Created /\ gwOut.raised) =>
            (result.kind = "None" /\ result.log = "error")

C3_Witness ==
    /\ pc = "Done" /\ Created /\ gwOut.raised /\ gwOut.error = "Exception"
    /\ req.type = "STOP_LIMIT" /\ result.kind = "None"

\* C4: one dispatch calls the order-creation endpoint at most once, whether
\* the call failed or succeeded.
C4_AtMostOneCreate ==
    Cardinality(Creations) <= 1

C4_Witness ==
    /\ pc = "Done" /\ req.type = "LIMIT" /\ Cardinality(Creations) = 1 /\ gwOut.raised

MarketDispatch == req.type = "MARKET" /\ ~req.dry_run

\* the outcome of a finished MARKET dispatch
C5_MarketDone ==
    (MarketDispatch /\ pc = "Done") =>
        /\ ~AllChecksPassed => (~Created /\ result = Result("None", NoResponse, "error"))
        /\ AllChecksPassed => Created
        /\ (Created /\ ~gwOut.raised) => result = Result("response", gwOut.response, "placed")
        /\ (Created /\ gwOut.raised) => result = Result("None", NoResponse, "error")
        /\ result.kind = "response" => (Created /\ ~gwOut.raised /\ gwOut.response \in Responses)

\* the steps of a MARKET dispatch
C5_MarketStep ==
    (MarketDispatch /\ pc' # pc) =>
        /\ <<pc, pc'>> \in { <<"Validating", "Submitted">>, <<"Validating", "Done">>,
                             <<"Submitted", "Done">>, <<"Done", "Idle">> }
        /\ pc' = "Submitted" => (Created' /\ result' = NoResult)
        /\ (pc = "Validating" /\ pc' = "Done") => ~Created'
        /\ pc = "Submitted" => (calls' = calls /\ result' # NoResult)

\* C5: a MARKET dispatch goes Validating -> Submitted -> Done and always ends
\* in one Done outcome: a failed validation goes straight to Done(failed)
\* with no order-creation call; a returned gateway call ends in
\* Done(succeeded) carrying the gateway's response; a raising gateway call
\* ends in Done(failed).  Success is reported only when order creation was
\* called and returned.
C5_MarketLifecycle ==
    /\ []C5_MarketDone
    /\ [][C5_MarketStep]_vars
    /\ (MarketDispatch /\ pc = "Validating") ~> (MarketDispatch /\ pc = "Done")

C5_Witness ==
    /\ MarketDispatch /\ pc = "Done" /\ Created
    /\ result.kind = "response" /\ result.response.status = "FILLED"

\* the checks of section 4.2 of the specification, against a symbol's filter list
QuantityFits(fs, q) ==
    /\ q > 0
    /\ \A k \in 1..Len(fs) : fs[k].filterType = "LOT_SIZE" =>
          /\ fs[k].minQty <= q /\ q <= fs[k].maxQty
          /\ fs[k].stepSize > 0 => (q - fs[k].minQty) % fs[k].stepSize = 0

PriceFits(fs, p) ==
    /\ p > 0
    /\ \A k \in 1..Len(fs) : fs[k].filterType = "PRICE_FILTER" =>
          /\ fs[k].minPrice <= p /\ p <= fs[k].maxPrice
          /\ fs[k].tickSize > 0 => (p - fs[k].minPrice) % fs[k].tickSize = 0

\* the exchange's entries for a symbol
Listed(symbol) == { i \in 1..Len(exchange) : exchange[i].symbol = symbol }

\* C6: an OCO or STOP_LIMIT request is submitted only if its symbol is listed
\* with status TRADING and its quantity and prices satisfy the symbol's
\* LOT_SIZE and PRICE_FILTER (range and step / tick), as for MARKET and LIMIT.
C6_AdvancedOrdersValidatedLikeLimit ==
    (Created /\ req.type \in {"OCO", "STOP_LIMIT"}) =>
        \E i \in Listed(sent.symbol) :
            /\ exchange[i].status = "TRADING"
            /\ QuantityFits(exchange[i].filters, sent.quantity)
            /\ PriceFits(exchange[i].filters, sent.price)
            /\ PriceFits(exchange[i].filters, sent.stopPrice)
            /\ req.type = "OCO" => PriceFits(exchange[i].filters, sent.stopLimitPrice)

\* the LOT_SIZE filters the exchange lists for the symbol of the last validator call
LotSizesOfCall ==
    UNION { { exchange[i].filters[k] :
                k \in { j \in 1..Len(exchange[i].filters) :
                           exchange[i].filters[j].filterType = "LOT_SIZE" } } :
            i \in Listed(vcall.symbol) }

ChecksQuantity == vcall.fn \in {"validate_quantity", "validate_stop_limit_params"}

\* C7: a quantity below minQty or above maxQty of the symbol's LOT_SIZE
\* filter is rejected, by validate_quantity of both bots and by the
\* stop-limit validator.
C7_QuantityOutOfRangeFails ==
    ChecksQuantity =>
        \A f \in LotSizesOfCall :
            (vcall.quantity < f.minQty \/ vcall.quantity > f.maxQty) => ~vcall.ret

C7_Witness ==
    /\ vcall.fn = "validate_quantity" /\ bot = "market" /\ ~vcall.ret
    /\ \E f \in LotSizesOfCall : vcall.quantity > f.maxQty /\ f.minQty > 0

\* the validator had the symbol's filters at hand and the symbol is TRADING
LookupSucceeded ==
    /\ vcall.symbol \in DOMAIN cache
    /\ cache[vcall.symbol].status = "TRADING"

OnGrid(f, q) ==
    /\ f.minQty <= q /\ q <= f.maxQty
    /\ f.stepSize > 0
    /\ (q - f.minQty) % f.stepSize = 0

\* C8 as stated: every quantity in [minQty, maxQty] on the step grid passes
\* validate_quantity, minQty = 0 included.
C8_OnGridQuantityPasses ==
    (vcall.fn = "validate_quantity" /\ LookupSucceeded /\ LotSizesOfCall # {}) =>
        ((\A f \in LotSizesOfCall : OnGrid(f, vcall.quantity)) => vcall.ret)

\* C8 amended: every positive quantity in [minQty, maxQty] on the step grid
\* passes validate_quantity (for a symbol whose lookup succeeded with status
\* TRADING); quantity 0 fails even when minQty = 0.
C8_PositiveOnGridQuantityPasses ==
    (vcall.fn = "validate_quantity" /\ LookupSucceeded /\ LotSizesOfCall # {}
        /\ vcall.quantity > 0) =>
        ((\A f \in LotSizesOfCall : OnGrid(f, vcall.quantity)) => vcall.ret)

C8_Witness ==
    /\ vcall.fn = "validate_quantity" /\ bot = "limit" /\ LookupSucceeded /\ vcall.ret
    /\ \E f \in LotSizesOfCall :
          OnGrid(f, vcall.quantity) /\ f.minQty = 1 /\ f.stepSize = 2 /\ vcall.quantity = 1

\* C9: every validator that checks a quantity rejects a quantity <= 0, and
\* rejects a quantity inside [minQty, maxQty] that is off the step grid
\* (exact remainder), the stop-limit validator included.
C9_QuantityOffGridFails ==
    ChecksQuantity =>
        /\ vcall.quantity <= 0 => ~vcall.ret
        /\ \A f \in LotSizesOfCall :
              ( /\ f.minQty <= vcall.quantity /\ vcall.quantity <= f.maxQty
                /\ f.stepSize > 0
                /\ (vcall.quantity - f.minQty) % f.stepSize # 0 ) => ~vcall.ret

\* C10: every price that reaches the gateway in a LIMIT order, and the stop
\* and limit price of a STOP_LIMIT order, is positive, inside
\* [minPrice, maxPrice] and on the tick grid of the symbol's PRICE_FILTER.
C10_SubmittedPricesFit ==
    (Created /\ req.type \in {"LIMIT", "STOP_LIMIT"}) =>
        \A i \in Listed(sent.symbol) :
            /\ PriceFits(exchange[i].filters, sent.price)
            /\ req.type = "STOP_LIMIT" => PriceFits(exchange[i].filters, sent.stopPrice)

\* C11: side validation is case-insensitive in every dispatcher: a side passes
\* iff its uppercase form is BUY or SELL, a passing side is sent in uppercase,
\* and with any other side no order is submitted.
C11_SideCaseInsensitive ==
    pc \in {"Submitted", "Done"} =>
        LET valid == Upper(req.side) \in {"BUY", "SELL"} IN
        /\ ~valid => ~Created
        /\ Created => sent.side = Upper(req.side)
        /\ (checks # <<>> /\ checks[1].name = "side") => (checks[1].ok <=> valid)
        /\ (vcall.fn = "validate_stop_limit_params" /\ vcall.failed = "side") => ~valid


\* C12: validate_symbol passes if and only if its lookup did not fail, the symbol
\* is among the exchange's symbols (exact match) and its status is TRADING; an
\* unknown symbol, a symbol with another status and a failed lookup all fail, on
\* a first call (the gateway is asked) and on a later call (answered from the cache).
C12_SymbolPassesIffTrading ==
    vcall.fn = "validate_symbol" =>
        /\ vcall.ret <=> /\ vcall.failed # "exception"
                         /\ \E i \in Listed(vcall.symbol) : exchange[i].status = "TRADING"
        /\ vcall.failed = "exception" => calls = <<"exchange_info">>
        /\ calls = <<>> => vcall.symbol \in DOMAIN cache

\* a later call, answered from the cache, for a symbol that is listed but not TRADING
C12_Witness ==
    /\ vcall.fn = "validate_symbol" /\ calls = <<>> /\ ~vcall.ret
    /\ \E i \in Listed(vcall.symbol) : exchange[i].status = "BREAK"

\* the direction the stop-limit validator asks for, against the current price
DirectionOk(side, current_price, stop_price, limit_price) ==
    /\ side = "BUY" => (stop_price > current_price /\ limit_price > stop_price)
    /\ side = "SELL" => (stop_price < current_price /\ limit_price < stop_price)

\* C13: the stop-limit validator passes a BUY only with stop price above the
\* current price and limit price above the stop price, a SELL only with stop
\* price below the current price and limit price below the stop price; equality
\* in either comparison fails, and a request in the right direction is never
\* refused for its direction.
C13_StopDirection ==
    vcall.fn = "validate_stop_limit_params" =>
        LET ok == DirectionOk(vcall.side, ticker, vcall.stop_price, vcall.limit_price) IN
        /\ vcall.ret => ok
        /\ vcall.failed = "direction" => ~ok
        /\ (~ok /\ vcall.failed \notin {"exception", "symbol", "side", "quantity",
                                         "stop_price", "limit_price"}) => vcall.failed = "direction"

\* a BUY one step above the current price passes, as in the example of the claim
C13_Witness ==
    /\ vcall.fn = "validate_stop_limit_params" /\ vcall.ret /\ vcall.side = "BUY"
    /\ vcall.stop_price = ticker + 1 /\ vcall.limit_price = vcall.stop_price + 1

\* the verdict of the last validator call had it found the cache empty and the
\* gateway answering with the same exchange info
FreshVerdict ==
    LET gw == [raised |-> FALSE, value |-> exchange] IN
    CASE vcall.fn = "validate_quantity" /\ bot = "market" ->
            MarketOrderBot_validate_quantity(EmptyCache, gw, vcall.symbol, vcall.quantity).ret
      [] vcall.fn = "validate_quantity" /\ bot = "limit" ->
            LimitOrderBot_validate_quantity(EmptyCache, gw, vcall.symbol, vcall.quantity).ret
      [] vcall.fn = "validate_price" ->
            LimitOrderBot_validate_price(EmptyCache, gw, vcall.symbol, vcall.price).ret
      [] OTHER -> vcall.ret

\* C14: for a fixed exchange info, validate_quantity and validate_price return
\* the same verdict whether the symbol is already cached or not (the lookup not
\* failing), whatever was validated before, also for a symbol that is not TRADING.
C14_VerdictIndependentOfCache ==
    (vcall.fn \in {"validate_quantity", "validate_price"} /\ vcall.failed # "exception") =>
        vcall.ret = FreshVerdict

\* a lookup of the symbol that the gateway answered is followed by another lookup
\* of the same symbol
RepeatedLookup ==
    /\ vcall.fn = "validate_symbol" /\ vcall.failed # "exception"
    /\ vcall'.fn = "validate_quantity" /\ vcall'.symbol = vcall.symbol
    /\ vcall'.quantity > 0

\* C15: a symbol lookup that misses the cache calls exchange_info once and
\* stores what it learned, the symbol's entry or its absence, so that a further
\* lookup of the same symbol in the same run, found or not found, makes no
\* gateway call.
C15_LookupOncePerSymbol ==
    [][RepeatedLookup => calls' = calls]_vars

\* every entry of the cache is still there, unchanged, after the step
CacheEntriesKept ==
    \A s \in DOMAIN cache : s \in DOMAIN cache' /\ cache'[s] = cache[s]

\* C16: once a symbol's entry is in the cache no operation (validate_symbol,
\* validate_quantity, validate_price, place_*) changes or removes it, even after
\* the exchange info has changed.
C16_CacheEntryImmutable ==
    [][CacheEntriesKept]_vars

\* a dispatch has run on an entry that no longer is what the exchange lists
C16_Witness ==
    /\ pc = "Done" /\ checks # <<>> /\ calls = <<>>
    /\ req.symbol \in DOMAIN cache
    /\ \E i \in Listed(req.symbol) : exchange[i] # cache[req.symbol]

\* what the validator of the last call returns for a symbol the exchange does not
\* list, the gateway answering: a validation failure
UnknownSymbolVerdict ==
    LET gw == [raised |-> FALSE, value |-> exchange]
        tk == [raised |-> FALSE, value |-> ticker]
    IN CASE vcall.fn = "validate_symbol" /\ bot = "market" ->
                MarketOrderBot_validate_symbol(cache, gw, "XRPUSDT").ret
         [] vcall.fn = "validate_symbol" /\ bot = "limit" ->
                LimitOrderBot_validate_symbol(cache, gw, "XRPUSDT").ret
         [] vcall.fn = "validate_quantity" /\ bot = "market" ->
                MarketOrderBot_validate_quantity(cache, gw, "XRPUSDT", vcall.quantity).ret
         [] vcall.fn = "validate_quantity" /\ bot = "limit" ->
                LimitOrderBot_validate_quantity(cache, gw, "XRPUSDT", vcall.quantity).ret
         [] vcall.fn = "validate_price" ->
                LimitOrderBot_validate_price(cache, gw, "XRPUSDT", vcall.price).ret
         [] OTHER ->
                StopLimitOrderHandler_validate_stop_limit_params(gw, tk, "XRPUSDT", vcall.side,
                    vcall.quantity, vcall.stop_price, vcall.limit_price).ret

\* C17: a gateway exception during the symbol lookup of a validator gives the
\* caller a result it can tell apart from the result of a validation failure
\* (unknown symbol, not TRADING, bad quantity): the two never are the same value.
C17_GatewayErrorDistinct ==
    (vcall.fn # "none" /\ vcall.failed = "exception") => vcall.ret # UnknownSymbolVerdict

\* C18: for every order type an invalid input (bad side, non-positive quantity
\* or price, filter violation) and a gateway error end in a failed result that
\* the dispatcher returns; no dispatcher raises an exception to its caller.
C18_InvalidInputReturnsFailure ==
    (pc = "Done" /\ req.type \in {"MARKET", "LIMIT", "STOP_LIMIT", "OCO"}) =>
        /\ result.kind \in {"None", "response", "exit0", "exit1"}
        /\ ~AllChecksPassed => (result.kind \in {"None", "exit1"} /\ result.log = "error")

MonitorRun == req.type = "MONITOR"

TerminalStatuses == {"FILLED", "CANCELED", "REJECTED", "EXPIRED"}

\* the last poll returned this status
Polled(st) == ~gwOut.raised /\ gwOut.response.status = st

\* what monitor has returned, once it has
C19_MonitorDone ==
    (MonitorRun /\ pc = "Done") =>
        /\ result.kind \in {"response", "{}"}
        /\ result.kind = "response" <=> \E st \in TerminalStatuses : Polled(st)
        /\ result.kind = "response" => result.response = gwOut.response
        /\ ~Polled("NEW") /\ ~Polled("PARTIALLY_FILLED")

\* the calls of a run: futures_get_order, time.sleep, futures_get_order, ...
C19_Iterations ==
    MonitorRun =>
        /\ \A i \in 1..Len(calls) :
              calls[i] = IF i % 2 = 1 THEN "futures_get_order" ELSE "time.sleep"
        /\ pc \in {"Polling", "Done"} => Len(calls) % 2 = 1
        /\ pc = "Sleeping" => (Len(calls) % 2 = 0 /\ (Polled("NEW") \/ Polled("PARTIALLY_FILLED")))

\* a poll that reports a non-terminal status is followed by one sleep, not by a return
C19_MonitorStep ==
    (MonitorRun /\ pc = "Polling" /\ ~gwOut'.raised
        /\ gwOut'.response.status \in {"NEW", "PARTIALLY_FILLED"}) =>
        /\ pc' = "Sleeping" /\ result' = NoResult
        /\ calls' = calls \o <<"time.sleep">>

\* C19: monitor returns a non-empty result (the polled order) if and only if
\* a futures_get_order poll reported FILLED, CANCELED, REJECTED or EXPIRED;
\* while the polled status is NEW or PARTIALLY_FILLED it does not return; each
\* pass is one futures_get_order call followed, only for a non-terminal
\* status, by one sleep.
C19_MonitorReturnsOnTerminal ==
    /\ []C19_MonitorDone
    /\ []C19_Iterations
    /\ [][C19_MonitorStep]_vars

\* the third poll reports CANCELED after two sleeps
C19_Witness ==
    /\ MonitorRun /\ pc = "Done" /\ Polled("CANCELED")
    /\ Len(calls) = 5 /\ result.kind = "response"

\* the answer to the first poll carries a terminal status
FirstPollTerminal ==
    /\ MonitorRun /\ pc = "Polling" /\ calls = <<"futures_get_order">>
    /\ ~gwOut'.raised /\ gwOut'.response.status \in TerminalStatuses

\* C20: when the first futures_get_order poll reports a terminal status,
\* monitor returns that order after this one gateway call, without sleeping.
C20_FirstPollTerminalReturns ==
    [][FirstPollTerminal =>
          /\ pc' = "Done"
          /\ calls' = <<"futures_get_order">>
          /\ result'.kind = "response" /\ result'.response = gwOut'.response]_vars

C20_Witness ==
    /\ MonitorRun /\ pc = "Done" /\ Polled("FILLED")
    /\ calls = <<"futures_get_order">> /\ result.kind = "response"

\* a poll of the run has raised: the run is over, with the empty result
C21_MonitorAfterException ==
    (MonitorRun /\ gwOut.raised) =>
        /\ pc = "Done"
        /\ result = Result("{}", NoResponse, "error")
        /\ calls[Len(calls)] = "futures_get_order"

\* the step on which a poll raises
C21_MonitorExceptionStep ==
    (MonitorRun /\ pc = "Polling" /\ gwOut'.raised) =>
        /\ pc' = "Done" /\ calls' = calls
        /\ result'.kind = "{}"

\* C21: when a futures_get_order poll raises, monitor stops polling at once
\* and returns the empty result: no futures_get_order call follows the
\* exception, and the exception does not reach the caller.
C21_MonitorStopsOnException ==
    /\ []C21_MonitorAfterException
    /\ [][C21_MonitorExceptionStep]_vars
    /\ [](MonitorRun => result.kind \notin GatewayErrors)

\* the second poll raised after one sleep
C21_Witness ==
    /\ MonitorRun /\ pc = "Done" /\ gwOut.raised /\ gwOut.error = "Exception"
    /\ calls = <<"futures_get_order", "time.sleep", "futures_get_order">>
    /\ result.kind = "{}"

\* monitor has returned only on a final status or on an exception
C22_ReturnsOnlyWhenEnded ==
    (MonitorRun /\ pc = "Done") =>
        (gwOut.raised \/ \E st \in TerminalStatuses : Polled(st))

\* a sleep is followed by another poll however many polls were made before
C22_SleepThenPoll ==
    (MonitorRun /\ pc = "Sleeping" /\ pc' # pc) =>
        (pc' = "Polling" /\ calls'[Len(calls')] = "futures_get_order")

Exited == pc = "Exited"

\* the runs whose aim is an order: the order scripts, and bot.py given an order type
OrderRun ==
    \/ bot \in {"market", "limit"}
    \/ bot = "top" /\ argv.order_type \in OrderTypes

\* C23: bot.py, market_orders.py and limit_orders.py exit with 0 exactly when the
\* order was placed (or the dry run passed), with 1 on a validation or placement
\* failure, and with 130 when the user interrupts the run.
C23_ExitCodes ==
    (Exited /\ OrderRun) =>
        /\ result.kind = "exit0" <=> result.log \in {"placed", "dry_run"}
        /\ result.log = "error" => result.kind = "exit1"
        /\ result.log = "cancelled" => result.kind = "exit130"

\* C24: bot.py validate exits with 1 if BINANCE_API_KEY or BINANCE_SECRET_KEY is
\* unset or any order script is missing, and ends with success only when both
\* credentials and all order scripts are present.
C24_ValidateSubcommand ==
    (Exited /\ bot = "top" /\ argv.order_type = "validate") =>
        /\ (~env.api_key \/ ~env.secret_key \/ env.scripts # OrderTypes)
              => result.kind = "exit1"
        /\ result.kind = "exit0"
              => (env.api_key /\ env.secret_key /\ env.scripts = OrderTypes)
        /\ (env.api_key /\ env.secret_key /\ env.scripts = OrderTypes)
              => (result.kind = "exit0" /\ result.log = "ready")

C24_Witness ==
    /\ Exited /\ bot = "top" /\ argv.order_type = "validate"
    /\ result.kind = "exit0"

CredentialsMissing == ~env.api_key \/ ~env.secret_key

\* C25: when the API key or the secret key is absent, every entry point stops with
\* a failure exit before any gateway call and before any order script is launched.
C25_MissingCredentialsFatal ==
    CredentialsMissing =>
        /\ calls = <<>>
        /\ pc \in {"Idle", "Exited"}
        /\ Exited => result.kind = "exit1"

RequiredPositional ==
    [t \in OrderTypes |-> CASE t = "market" -> 3 [] t = "limit" -> 4 [] t = "stop_limit" -> 5
                            [] t = "oco" -> 6 [] t = "twap" -> 5]

Launched == \E i \in 1..Len(calls) : calls[i] = "subprocess.run"

\* C26: bot.py launches an order script only when the number of positional
\* arguments is at least the count required by the order type and the script file
\* exists; otherwise no subprocess is started and the process exits with code 1.
C26_LaunchOnlyWithArguments ==
    (bot = "top" /\ pc \in {"Subprocess", "Exited"} /\ argv.order_type \in OrderTypes) =>
        /\ Launched =>
              /\ argv.positional >= RequiredPositional[argv.order_type]
              /\ argv.order_type \in env.scripts
        /\ (Exited /\ ~Launched) => result.kind = "exit1"

(***************************************************************************)
(* The order of the checks and the balance query                           *)
(***************************************************************************)
PlainDispatch ==
    /\ bot \in {"market", "limit"} /\ req.type \in {"MARKET", "LIMIT"} /\ ~req.dry_run
    /\ pc \in {"Submitted", "Done"}

BalanceQueries == { i \in 1..Len(calls) : calls[i] = "account" }

\* C27: place_market_order and place_limit_order check side, symbol, quantity,
\* (price) in that order and the first failing check ends the dispatch; an invalid
\* side means no gateway call at all, and the balance query is made only after
\* every validation has passed, right before order creation.
C27_ChecksInOrder ==
    PlainDispatch =>
        LET full == ApplicableChecks(req.type)
            n == Len(checks)
        IN /\ n \in 1..Len(full)
           /\ CheckNames = SubSeq(full, 1, n)
           /\ \A i \in 1..(n - 1) : checks[i].ok
           /\ ~checks[n].ok =>
                 /\ pc = "Done" /\ result.kind = "None"
                 /\ ~Created /\ BalanceQueries = {}
           /\ ~checks[1].ok => calls = <<>>
           /\ (n = Len(full) /\ AllChecksPassed) =>
                 /\ BalanceQueries = {Len(calls) - 1}
                 /\ Creations = {Len(calls)}

C27_Witness ==
    /\ PlainDispatch /\ bot = "limit" /\ pc = "Done"
    /\ checks = <<Check("side", FALSE)>> /\ calls = <<>>

\* the order the dispatch builds from its arguments
ExpectedPayload ==
    [NoPayload EXCEPT !.symbol = Upper(req.symbol), !.side = Upper(req.side),
                      !.type = req.type, !.quantity = req.quantity,
                      !.price = IF req.type = "LIMIT" THEN req.price ELSE 0]

\* C28: a failed account-balance query (gateway exception, result None) does not
\* block or alter the order: once all validations have passed, order creation is
\* called exactly once, with the same parameters whether or not the query succeeded.
C28_BalanceFailureHarmless ==
    (PlainDispatch /\ Len(checks) = Len(ApplicableChecks(req.type)) /\ AllChecksPassed) =>
        /\ balance \in {"None", "account_info"}
        /\ Cardinality(Creations) = 1
        /\ sent = ExpectedPayload
        /\ pc = "Done" => result = (IF gwOut.raised THEN Result("None", NoResponse, "error")
                                    ELSE Result("response", gwOut.response, "placed"))

C28_Witness ==
    /\ PlainDispatch /\ bot = "market" /\ balance = "None"
    /\ pc = "Done" /\ result.kind = "response" /\ Cardinality(Creations) = 1

(***************************************************************************)
(* execute_from_config                                                     *)
(***************************************************************************)
ConfigRun == calls # <<>> /\ calls[1] = "execute_from_config"

ConfigReturned == ConfigRun /\ pc \in {"Exited", "Done"}

MarketEntries == { i \in 1..Len(config.orders) : Lower(config.orders[i].type) = "market" }

Dispatches == { i \in 1..Len(calls) : calls[i] = "place_market_order" }

CachedFilterCall ==
    /\ bot \in {"market", "limit"}
    /\ vcall.fn \in {"validate_quantity", "validate_price"}
    /\ calls = <<>> /\ vcall.symbol \in DOMAIN cache
    /\ (IF vcall.fn = "validate_quantity" THEN vcall.quantity ELSE vcall.price) > 0

\* the entries of the cached filter list the called validator looks at
FiltersOfCall ==
    LET fs == cache[vcall.symbol].filters
        t == IF vcall.fn = "validate_quantity" THEN "LOT_SIZE" ELSE "PRICE_FILTER"
    IN { fs[i] : i \in { j \in 1..Len(fs) : fs[j].filterType = t } }

InRangeOfCall(f) ==
    IF vcall.fn = "validate_quantity"
    THEN f.minQty <= vcall.quantity /\ vcall.quantity <= f.maxQty
    ELSE f.minPrice <= vcall.price /\ vcall.price <= f.maxPrice

StepOfCall(f) == IF vcall.fn = "validate_quantity" THEN f.stepSize ELSE f.tickSize

\* C30: when the cached symbol info has no LOT_SIZE (resp. PRICE_FILTER) entry,
\* validate_quantity (resp. validate_price) passes for every positive value; when
\* the stepSize (resp. tickSize) is 0, a value within the range passes whatever its
\* alignment.
C30_MissingFilterOrStepSkipped ==
    CachedFilterCall =>
        /\ FiltersOfCall = {} => vcall.ret
        /\ (\A f \in FiltersOfCall : StepOfCall(f) = 0 /\ InRangeOfCall(f)) => vcall.ret

\* a price inside the range of a PRICE_FILTER whose tickSize is 0 passes
C30_Witness ==
    /\ CachedFilterCall /\ vcall.fn = "validate_price" /\ vcall.ret
    /\ \E f \in FiltersOfCall : f.tickSize = 0 /\ f.minPrice < vcall.price

====
